---- MODULE Spec2Model ----
(***************************************************************************)
(* Model of the SRUM analysis of pages/analysis_page.py: SrumAnalyzer      *)
(* (analyze and its helpers), the worker thread SrumAnalysisThread and the *)
(* AnalysisPage handlers that start it and receive its completion signal.  *)
(*                                                                         *)
(* Representation of Python values                                         *)
(*   a Python value is a record [k |-> tag, v |-> payload]:                *)
(*     none, bool, int, str (payload: sequence of one-character strings),  *)
(*     bytes (payload: sequence of 0..255), float and datetime (payload:   *)
(*     the little-endian bytes they were unpacked from; IEEE-754           *)
(*     arithmetic is not interpreted), filetime (a datetime made from a    *)
(*     FILETIME tick count; payload: the count).                           *)
(*   a call that may raise returns [raised, exc, val].                     *)
(*   a dict is a function whose domain holds the keys, normalised as       *)
(*   Python's hash/eq do for bool and int (True == 1).                     *)
(***************************************************************************)
EXTENDS Integers, Sequences, FiniteSets, TLC

(***************************************************************************)
(* Characters and strings                                                  *)
(***************************************************************************)
\* the printable ASCII characters, code points 32..126, in order (the
\* quotes, backslash and backtick are written as the tokens <34>, <39>,
\* <92>, <96>)
AsciiChars ==
  << " ", "!", "<34>", "#", "$", "%", "&", "<39>", "(", ")", "*", "+", ",", "-", ".", "/",
     "0", "1", "2", "3", "4", "5", "6", "7", "8", "9", ":", ";", "<", "=", ">", "?",
     "@", "A", "B", "C", "D", "E", "F", "G", "H", "I", "J", "K", "L", "M", "N", "O",
     "P", "Q", "R", "S", "T", "U", "V", "W", "X", "Y", "Z", "[", "<92>", "]", "^", "_",
     "<96>", "a", "b", "c", "d", "e", "f", "g", "h", "i", "j", "k", "l", "m", "n", "o",
     "p", "q", "r", "s", "t", "u", "v", "w", "x", "y", "z", "{", "|", "}", "~" >>

\* chr(): the character of a code point; a code point outside printable
\* ASCII is the one-symbol token <n>
Chr(c) == IF c \in 32..126 THEN AsciiChars[c - 31] ELSE "<" \o ToString(c) \o ">"

\* ord() of a printable character, -1 for any other symbol
Ord(ch) ==
  IF \E c \in 32..126 : AsciiChars[c - 31] = ch
  THEN CHOOSE c \in 32..126 : AsciiChars[c - 31] = ch
  ELSE -1

\* str.lower() of one character and of a string
LowerChar(ch) == IF Ord(ch) \in 65..90 THEN Chr(Ord(ch) + 32) ELSE ch

Lower(s) == [i \in 1..Len(s) |-> LowerChar(s[i])]

\* str.startswith
StartsWith(s, p) == Len(s) >= Len(p) /\ SubSeq(s, 1, Len(p)) = p

\* s[n:] of a Python string (n >= 0)
DropChars(s, n) == IF n >= Len(s) THEN <<>> ELSE SubSeq(s, n + 1, Len(s))

\* str.split(sep) for a one-character separator: the list of the pieces
RECURSIVE SplitAcc(_, _, _)
SplitAcc(s, sep, cur) ==
  IF s = <<>> THEN <<cur>>
  ELSE IF Head(s) = sep THEN <<cur>> \o SplitAcc(Tail(s), sep, <<>>)
  ELSE SplitAcc(Tail(s), sep, Append(cur, Head(s)))

Split(s, sep) == SplitAcc(s, sep, <<>>)

\* the decimal digits of a natural number, and str(int)
RECURSIVE NatToChars(_)
NatToChars(n) ==
  IF n < 10 THEN <<Chr(48 + n)>> ELSE NatToChars(n \div 10) \o <<Chr(48 + (n % 10))>>

IntToChars(n) == IF n < 0 THEN <<"-">> \o NatToChars(0 - n) ELSE NatToChars(n)

\* two lower-case hexadecimal digits of a byte, and codecs.encode(b, "hex")
HexDigits == <<"0", "1", "2", "3", "4", "5", "6", "7", "8", "9", "a", "b", "c", "d", "e", "f">>

HexByte(b) == <<HexDigits[(b \div 16) + 1], HexDigits[(b % 16) + 1]>>

RECURSIVE HexEncode(_)
HexEncode(bs) == IF bs = <<>> THEN <<>> ELSE HexByte(Head(bs)) \o HexEncode(Tail(bs))

\* the value of a hexadecimal digit (either case), -1 when it is not one
HexVal(ch) ==
  LET l == LowerChar(ch)
  IN IF \E i \in 1..16 : HexDigits[i] = l
     THEN (CHOOSE i \in 1..16 : HexDigits[i] = l) - 1
     ELSE -1

\* str.strip("\x00") on a sequence of code points
RECURSIVE LStripNul(_)
LStripNul(cps) == IF cps /= <<>> /\ Head(cps) = 0 THEN LStripNul(Tail(cps)) ELSE cps

RECURSIVE RStripNul(_)
RStripNul(cps) ==
  IF cps /= <<>> /\ cps[Len(cps)] = 0 THEN RStripNul(SubSeq(cps, 1, Len(cps) - 1)) ELSE cps

StripNul(cps) == RStripNul(LStripNul(cps))

CodePointsToChars(cps) == [i \in 1..Len(cps) |-> Chr(cps[i])]

(***************************************************************************)
(* Python values, results and dicts                                        *)
(***************************************************************************)
NoneVal == [k |-> "none", v |-> 0]

PyStr(s) == [k |-> "str", v |-> s]

PyInt(n) == [k |-> "int", v |-> n]

PyBool(b) == [k |-> "bool", v |-> b]

PyBytes(bs) == [k |-> "bytes", v |-> bs]

PyFloat(bs) == [k |-> "float", v |-> bs]

PyDatetime(bs) == [k |-> "datetime", v |-> bs]

IsStr(x) == x.k = "str"

\* val == "literal"
StrEq(x, lit) == x.k = "str" /\ x.v = lit

\* truth value of a Python value (if not x)
Truthy(x) ==
  CASE x.k = "none" -> FALSE
    [] x.k = "bool" -> x.v
    [] x.k = "int" -> x.v /= 0
    [] x.k = "str" -> x.v /= <<>>
    [] x.k = "bytes" -> x.v /= <<>>
    [] OTHER -> TRUE

\* str(x) as a sequence of characters; bytes, float and datetime are
\* rendered as a token over their bytes
StrChars(x) ==
  CASE x.k = "none" -> <<"N", "o", "n", "e">>
    [] x.k = "bool" -> (IF x.v THEN <<"T", "r", "u", "e">> ELSE <<"F", "a", "l", "s", "e">>)
    [] x.k = "int" -> IntToChars(x.v)
    [] x.k = "str" -> x.v
    [] x.k = "bytes" -> (<<"b", ":">> \o HexEncode(x.v))
    [] x.k = "float" -> (<<"f", "l", "o", "a", "t", ":">> \o HexEncode(x.v))
    [] x.k = "filetime" -> (<<"f", "i", "l", "e", "t", "i", "m", "e", ":">> \o IntToChars(x.v))
    [] OTHER -> (<<"d", "a", "t", "e", "t", "i", "m", "e", ":">> \o HexEncode(x.v))

Str(x) == PyStr(StrChars(x))

Ret(x) == [raised |-> FALSE, exc |-> "", val |-> x]

Raise(e) == [raised |-> TRUE, exc |-> e, val |-> NoneVal]

\* an exception with an argument (KeyError: the missing key)
RaiseArg(e, arg) == [raised |-> TRUE, exc |-> e, val |-> arg]

\* try: r, except: handler
Catch(r, handler) == IF r.raised THEN handler ELSE r

\* try: return r, except: return on_error
OrElse(r, on_error) == IF r.raised THEN on_error ELSE r.val

\* dict keys: True and 1 (False and 0) are the same key
PyKey(x) == IF x.k = "bool" THEN PyInt(IF x.v THEN 1 ELSE 0) ELSE x

EmptyDict == [x \in {} |-> NoneVal]

DictHas(d, key) == PyKey(key) \in DOMAIN d

DictGet(d, key, default) == IF PyKey(key) \in DOMAIN d THEN d[PyKey(key)] ELSE default

DictSet(d, key, val) ==
  [x \in (DOMAIN d) \cup {PyKey(key)} |-> IF x = PyKey(key) THEN val ELSE d[x]]

\* d.update(e)
DictUpdate(d, e) == [x \in (DOMAIN d) \cup (DOMAIN e) |-> IF x \in DOMAIN e THEN e[x] ELSE d[x]]

(***************************************************************************)
(* String literals of the code                                             *)
(***************************************************************************)
ErrorStr == <<"E", "r", "r", "o", "r">>

EmptyStr == <<"E", "m", "p", "t", "y">>

InvalidOleStr ==
  <<"I", "n", "v", "a", "l", "i", "d", " ", "O", "L", "E", " ",
    "T", "i", "m", "e", "s", "t", "a", "m", "p">>

InvalidFileStr ==
  <<"I", "n", "v", "a", "l", "i", "d", " ", "F", "i", "l", "e", " ",
    "T", "i", "m", "e", "s", "t", "a", "m", "p">>

InvalidSidStr == <<"I", "n", "v", "a", "l", "i", "d", " ", "S", "I", "D">>

WarningPrefix ==
  <<"W", "A", "R", "N", "I", "N", "G", ":", " ", "I", "n", "v", "a", "l", "i", "d", " ",
    "C", "o", "l", "u", "m", "n", " ", "N", "a", "m", "e", " ">>

KnownSidsName == <<"K", "n", "o", "w", "n", " ", "S", "I", "D", "S">>

LuidInterfacesName ==
  <<"L", "U", "I", "D", " ", "I", "n", "t", "e", "r", "f", "a", "c", "e", "s">>

LookupMarker == <<"l", "o", "o", "k", "u", "p", "-">>

FinishedMessage ==
  <<"F", "i", "n", "i", "s", "h", "e", "d", " ", "p", "r", "o", "c", "e", "s", "s", "i", "n", "g",
    " ", "a", "l", "l", " ", "t", "a", "b", "l", "e", "s", ".">>

SrumFileErrorPrefix ==
  <<"C", "o", "u", "l", "d", " ", "n", "o", "t", " ", "o", "p", "e", "n", " ", "t", "h", "e", " ",
    "s", "p", "e", "c", "i", "f", "i", "e", "d", " ", "S", "R", "U", "M", " ", "f", "i", "l", "e",
    ":", " ">>

TemplateFileErrorPrefix ==
  <<"C", "o", "u", "l", "d", " ", "n", "o", "t", " ", "o", "p", "e", "n", " ", "t", "h", "e", " ",
    "s", "p", "e", "c", "i", "f", "i", "e", "d", " ", "t", "e", "m", "p", "l", "a", "t", "e", " ",
    "f", "i", "l", "e", ":", " ">>

\* the names of the ESE tables the code names
MSysObjects == <<"M", "S", "y", "s", "O", "b", "j", "e", "c", "t", "s">>

MSysObjectsShadow == MSysObjects \o <<"S", "h", "a", "d", "o", "w">>

MSysObjids == <<"M", "S", "y", "s", "O", "b", "j", "i", "d", "s">>

MSysLocales == <<"M", "S", "y", "s", "L", "o", "c", "a", "l", "e", "s">>

SruDbIdMapTable ==
  <<"S", "r", "u", "D", "b", "I", "d", "M", "a", "p", "T", "a", "b", "l", "e">>

IdBlob == <<"I", "d", "B", "l", "o", "b">>

IdType == <<"I", "d", "T", "y", "p", "e">>

IdIndex == <<"I", "d", "I", "n", "d", "e", "x">>

\* analyze(): skip_tables
SkipTables == {MSysObjects, MSysObjectsShadow, MSysObjids, MSysLocales, SruDbIdMapTable}

(***************************************************************************)
(* Bytes: struct.unpack, uuid.UUID, the Blob/Text Normalizer               *)
(***************************************************************************)
\* the unsigned little-endian value of a byte string
RECURSIVE LEUnsigned(_)
LEUnsigned(bs) == IF bs = <<>> THEN 0 ELSE Head(bs) + 256 * LEUnsigned(Tail(bs))

\* the two's-complement little-endian value of a byte string
LESigned(bs) ==
  IF bs /= <<>> /\ bs[Len(bs)] >= 128
  THEN 0 - (LEUnsigned([i \in 1..Len(bs) |-> 255 - bs[i]]) + 1)
  ELSE LEUnsigned(bs)

\* the unsigned big-endian value of a byte string
RECURSIVE BEUnsigned(_)
BEUnsigned(bs) ==
  IF bs = <<>> THEN 0 ELSE bs[Len(bs)] + 256 * BEUnsigned(SubSeq(bs, 1, Len(bs) - 1))

\* struct.calcsize of the format characters _smart_retrieve uses
StructSize(fmt) ==
  CASE fmt \in {"?", "B"} -> 1
    [] fmt \in {"h", "H"} -> 2
    [] fmt \in {"i", "I", "f"} -> 4
    [] OTHER -> 8

\* struct.unpack(fmt, data)[0] on a little-endian host: struct.error unless
\* the buffer has exactly the size of the format
StructUnpack(fmt, bs) ==
  IF Len(bs) /= StructSize(fmt) THEN Raise("struct.error")
  ELSE CASE fmt = "?" -> Ret(PyBool(bs[1] /= 0))
         [] fmt \in {"B", "H", "I"} -> Ret(PyInt(LEUnsigned(bs)))
         [] fmt \in {"h", "i", "q"} -> Ret(PyInt(LESigned(bs)))
         [] OTHER -> Ret(PyFloat(bs))

\* str(uuid.UUID(bytes=data)): ValueError unless there are 16 bytes
UuidStr(bs) ==
  IF Len(bs) /= 16 THEN Raise("ValueError")
  ELSE LET h == HexEncode(bs)
       IN Ret(PyStr(SubSeq(h, 1, 8) \o <<"-">> \o SubSeq(h, 9, 12) \o <<"-">>
                    \o SubSeq(h, 13, 16) \o <<"-">> \o SubSeq(h, 17, 20) \o <<"-">>
                    \o SubSeq(h, 21, 32)))

\* codecs.decode(s, "hex") of a str: fails on an odd length or a non-hex digit
HexDecode(s) ==
  IF Len(s) % 2 /= 0 \/ \E i \in 1..Len(s) : HexVal(s[i]) < 0
  THEN Raise("binascii.Error")
  ELSE Ret(PyBytes([i \in 1..(Len(s) \div 2) |-> 16 * HexVal(s[2 * i - 1]) + HexVal(s[2 * i])]))

\* `$` also matches just before a newline that ends the subject
DollarCores(bs) ==
  {bs} \cup (IF bs /= <<>> /\ bs[Len(bs)] = 10 THEN {SubSeq(bs, 1, Len(bs) - 1)} ELSE {})

\* re.match(b'^(?:[^\x00]\x00)+\x00\x00$', bs)
MatchUtf16LE(bs) ==
  \E c \in DollarCores(bs) :
    /\ Len(c) >= 4 /\ Len(c) % 2 = 0
    /\ c[Len(c)] = 0 /\ c[Len(c) - 1] = 0
    /\ \A i \in 1..(Len(c) - 2) : IF i % 2 = 1 THEN c[i] /= 0 ELSE c[i] = 0

\* re.match(b'^(?:\x00[^\x00])+\x00\x00$', bs)
MatchUtf16BE(bs) ==
  \E c \in DollarCores(bs) :
    /\ Len(c) >= 4 /\ Len(c) % 2 = 0
    /\ c[Len(c)] = 0 /\ c[Len(c) - 1] = 0
    /\ \A i \in 1..(Len(c) - 2) : IF i % 2 = 1 THEN c[i] = 0 ELSE c[i] /= 0

\* Utf16Decode reading every buffer as big-endian
Utf16Decode_AlwaysBE(bs, bigEndian) ==
  IF Len(bs) % 2 /= 0 THEN Raise("UnicodeDecodeError")
  ELSE Ret([i \in 1..(Len(bs) \div 2) |-> 256 * bs[2 * i - 1] + bs[2 * i]])

\* bytes.decode("utf-16-le"/"utf-16-be") of a buffer the patterns accept
\* (every code unit is below 256): UnicodeDecodeError on an odd length
Utf16Decode(bs, bigEndian) ==
  IF Len(bs) % 2 /= 0 THEN Raise("UnicodeDecodeError")
  ELSE Ret([i \in 1..(Len(bs) \div 2) |->
              IF bigEndian THEN 256 * bs[2 * i - 1] + bs[2 * i]
              ELSE bs[2 * i - 1] + 256 * bs[2 * i]])

\* the try block of _blob_to_string on bytes
BlobBytesToString(bs) ==
  LET Text(d) == IF d.raised THEN d ELSE Ret(PyStr(CodePointsToChars(StripNul(d.val))))
  IN IF MatchUtf16LE(bs) THEN Text(Utf16Decode(bs, FALSE))
     ELSE IF MatchUtf16BE(bs) THEN Text(Utf16Decode(bs, TRUE))
     ELSE Text(Ret(bs))

\* BlobToString giving the error sentinel on an exception
BlobToString_ErrorOnFailure(blob) ==
  LET Decoded(chrblob) == IF chrblob.raised THEN chrblob
                          ELSE IF chrblob.val.k /= "bytes" THEN Raise("TypeError")
                          ELSE BlobBytesToString(chrblob.val.v)
  IN OrElse(Decoded(IF blob.k = "str" THEN HexDecode(blob.v) ELSE Ret(blob)),
            PyStr(ErrorStr))

\* SrumAnalyzer._blob_to_string
BlobToString(blob) ==
  LET Decoded(chrblob) == IF chrblob.raised THEN chrblob
                          ELSE IF chrblob.val.k /= "bytes" THEN Raise("TypeError")
                          ELSE BlobBytesToString(chrblob.val.v)
  IN OrElse(Decoded(IF blob.k = "str" THEN HexDecode(blob.v) ELSE Ret(blob)),
            IF blob.k = "bytes" THEN PyStr(HexEncode(blob.v)) ELSE Str(blob))

\* SrumAnalyzer._ole_timestamp: a datetime, or the literal on any failure.
\* The double is not interpreted: eight bytes whose exponent field is all
\* ones (inf, nan) have no "." in their repr and fail; other doubles are
\* taken to convert.
OleTimestamp(bs) ==
  IF Len(bs) /= 8 THEN PyStr(InvalidOleStr)
  ELSE IF bs[8] % 128 = 127 /\ bs[7] >= 240 THEN PyStr(InvalidOleStr)
  ELSE PyDatetime(bs)

(***************************************************************************)
(* The ESE database as pyesedb presents it                                 *)
(*   table  = [name, columns, count_raises, records]                       *)
(*   column = [name, type]     record = [readable, decodable, data]        *)
(*   data   = one raw value per column: None or bytes                      *)
(*   readable:  get_record(row) of the record loop gives the record        *)
(*   decodable: get_record(row) gives it again when _smart_retrieve asks   *)
(***************************************************************************)
NoRecord == [readable |-> FALSE, decodable |-> FALSE, data |-> <<>>]

\* SrumAnalyzer._ese_table_record_count
EseTableRecordCount(t) == IF t.count_raises THEN 0 ELSE Len(t.records)

\* SrumAnalyzer._ese_table_get_record (row_num counts from 0); NoRecord
\* stands for None
EseTableGetRecord(t, row_num) ==
  IF row_num + 1 \in 1..Len(t.records) /\ t.records[row_num + 1].readable
  THEN t.records[row_num + 1]
  ELSE NoRecord

\* SrumAnalyzer._smart_retrieve
SmartRetrieve(t, rec_num, col_num) ==
  LET rec == EseTableGetRecord(t, rec_num)
      col_type == t.columns[col_num + 1].type
      col_data == rec.data[col_num + 1]
      \* the struct format of the branch of col_type, "" when it has none
      fmt == CASE col_type = "BOOLEAN" -> "?"
               [] col_type = "DOUBLE_64BIT" -> "d"
               [] col_type = "FLOAT_32BIT" -> "f"
               [] col_type = "INTEGER_16BIT_SIGNED" -> "h"
               [] col_type = "INTEGER_16BIT_UNSIGNED" -> "H"
               [] col_type = "INTEGER_32BIT_SIGNED" -> "i"
               [] col_type = "INTEGER_32BIT_UNSIGNED" -> "I"
               [] col_type = "INTEGER_64BIT_SIGNED" -> "q"
               [] col_type = "INTEGER_8BIT_UNSIGNED" -> "B"
               [] OTHER -> ""
      \* text: self._blob_to_string(col_data), of the except clause, the
      \* text branches and the last line
      Decode(text) ==
        CASE col_type \in {"BINARY_DATA", "LARGE_BINARY_DATA", "SUPER_LARGE_VALUE"} ->
               Ret(PyStr(HexEncode(col_data.v)))
          [] col_type = "DATE_TIME" -> Ret(OleTimestamp(col_data.v))
          [] col_type = "GUID" -> UuidStr(col_data.v)
          [] fmt /= "" -> Catch(StructUnpack(fmt, col_data.v), text)
          [] col_type \in {"LARGE_TEXT", "TEXT"} -> text
          [] OTHER -> text
  IN IF ~rec.readable \/ ~rec.decodable THEN Ret(PyStr(ErrorStr))
     ELSE IF col_data.k = "none" THEN Ret(PyStr(EmptyStr))
     ELSE Decode(Ret(BlobToString(col_data)))

(***************************************************************************)
(* The Format-for-Display Engine                                           *)
(***************************************************************************)
DefaultStrftime ==
  <<"%", "Y", "-", "%", "m", "-", "%", "d", " ", "%", "H", ":", "%", "M", ":", "%", "S">>

\* datetime.strftime(pattern): the date arithmetic is not interpreted, the
\* result is a token over the datetime and the pattern
Strftime(dt, pattern) == PyStr(StrChars(dt) \o <<"@">> \o pattern)

\* isinstance(x, datetime)
IsDatetime(x) == x.k \in {"datetime", "filetime"}

\* SrumAnalyzer._file_timestamp: a datetime for a number (every integer of
\* the model's range is within datetime's range), the literal on TypeError
FileTimestamp(n) ==
  CASE n.k \in {"int", "bool"} -> [k |-> "filetime", v |-> PyKey(n).v]
    [] n.k = "float" -> PyDatetime(n.v)
    [] OTHER -> PyStr(InvalidFileStr)

\* two decimal digits, as "%02d" prints them
TwoDigits(n) == IF n < 10 THEN <<"0">> \o NatToChars(n) ELSE NatToChars(n)

\* str(timedelta(seconds=n)) for an integer n
TimedeltaStr(n) ==
  LET days == n \div 86400
      rest == n % 86400
      hms == NatToChars(rest \div 3600) \o <<":">> \o TwoDigits((rest % 3600) \div 60)
             \o <<":">> \o TwoDigits(rest % 60)
      plural == IF days = 1 \/ days = -1 THEN <<>> ELSE <<"s">>
  IN IF days = 0 THEN hms
     ELSE IntToChars(days) \o <<" ", "d", "a", "y">> \o plural \o <<",", " ">> \o hms

RECURSIVE NatToHex(_)
NatToHex(n) ==
  IF n < 16 THEN <<HexDigits[n + 1]>> ELSE NatToHex(n \div 16) \o <<HexDigits[(n % 16) + 1]>>

\* hex(n)
HexStr(n) ==
  IF n < 0 THEN <<"-", "0", "x">> \o NatToHex(0 - n) ELSE <<"0", "x">> \o NatToHex(n)

RECURSIVE NatToBin(_)
NatToBin(n) ==
  IF n < 2 THEN <<Chr(48 + n)>> ELSE NatToBin(n \div 2) \o <<Chr(48 + (n % 2))>>

RECURSIVE ZeroPad(_, _)
ZeroPad(s, width) == IF Len(s) >= width THEN s ELSE ZeroPad(<<"0">> \o s, width)

\* format(n, "032b")
Bin32Str(n) ==
  IF n < 0 THEN <<"-">> \o ZeroPad(NatToBin(0 - n), 31) ELSE ZeroPad(NatToBin(n), 32)

\* int(s, 2) for a string of binary digits; ValueError for any other string
\* (signs, blanks, underscores and the 0b prefix are not modelled)
RECURSIVE BinValue(_)
BinValue(s) ==
  IF s = <<>> THEN 0 ELSE 2 * BinValue(SubSeq(s, 1, Len(s) - 1)) + (Ord(s[Len(s)]) - 48)

ParseBin(s) ==
  IF s /= <<>> /\ \A i \in 1..Len(s) : s[i] \in {"0", "1"}
  THEN Ret(PyInt(BinValue(s)))
  ELSE Raise("ValueError")

\* hashlib.<name>(str(val).encode()).hexdigest(): the digest is not
\* computed, the result is a token over the algorithm and the input
Digest(name, val) == PyStr(name \o <<"(">> \o StrChars(val) \o <<")">>)

IsIntLike(x) == x.k \in {"int", "bool"}

IntOf(x) == PyKey(x).v

\* LookupId falling back to the raw value
LookupId_RawFallback(self, val) == DictGet(self.id_table, val, val)

\* the lookup_id branch: self.id_table.get(val, f"Unknown ID ({val})")
LookupId(self, val) ==
  DictGet(self.id_table, val,
          PyStr(<<"U", "n", "k", "n", "o", "w", "n", " ", "I", "D", " ", "(">>
                \o StrChars(val) \o <<")">>))

\* InterfaceId leaving the value as it is
InterfaceId_Raw(self, val) == val

\* the interface_id branch: self.interface_table.get(str(val), "")
InterfaceId(self, val) == DictGet(self.interface_table, Str(val), PyStr(<<>>))

\* the body of the try block of _format_output_for_gui: the new val, or
\* the exception that the except clause swallows.  self is the analyzer:
\* [reg_hive_path, template_lookups, id_table, interface_table, ...]
FormatDirective(self, val, fmt) ==
  LET fmt_lower == Lower(fmt)
      has_colon == \E i \in 1..Len(fmt) : fmt[i] = ":"
      is(lit) == fmt_lower = lit
  IN CASE StartsWith(fmt_lower, <<"o", "l", "e">>) ->
            (IF IsDatetime(val)
             THEN Ret(Strftime(val, IF has_colon THEN DropChars(fmt, 4) ELSE DefaultStrftime))
             ELSE Ret(val))
       [] StartsWith(fmt_lower, <<"f", "i", "l", "e">>) ->
            (LET ft == FileTimestamp(val)
             IN IF IsDatetime(ft)
                THEN Ret(Strftime(ft, IF has_colon THEN DropChars(fmt, 5) ELSE DefaultStrftime))
                ELSE Ret(ft))
       [] StartsWith(fmt_lower, LookupMarker) ->
            (LET lookup_name == Split(fmt, "-")[2]
             IN Ret(DictGet(DictGet(self.template_lookups, PyStr(lookup_name), EmptyDict),
                            val, val)))
       [] is(<<"l", "o", "o", "k", "u", "p", "_", "i", "d">>) -> Ret(LookupId(self, val))
       [] is(<<"l", "o", "o", "k", "u", "p", "_", "l", "u", "i", "d">>) ->
            \* format(val, '016x') of an integer of the model's range has its
            \* top two bytes zero; a negative or non-integer value fails
            (IF IsIntLike(val) /\ IntOf(val) >= 0
             THEN Ret(DictGet(DictGet(self.template_lookups, PyStr(LuidInterfacesName),
                                      EmptyDict), PyInt(0), PyStr(<<>>)))
             ELSE Raise("ValueError"))
       [] is(<<"s", "e", "c", "o", "n", "d", "s">>) ->
            (IF IsIntLike(val) THEN Ret(PyStr(TimedeltaStr(IntOf(val))))
             ELSE IF ~Truthy(val) THEN Ret(PyStr(TimedeltaStr(0)))
             ELSE IF val.k = "float"
             THEN Ret(PyStr(<<"t", "i", "m", "e", "d", "e", "l", "t", "a", ":">> \o StrChars(val)))
             ELSE Raise("TypeError"))
       [] is(<<"m", "d", "5">>) -> Ret(Digest(<<"m", "d", "5">>, val))
       [] is(<<"s", "h", "a", "1">>) -> Ret(Digest(<<"s", "h", "a", "1">>, val))
       [] is(<<"s", "h", "a", "2", "5", "6">>) -> Ret(Digest(<<"s", "h", "a", "2", "5", "6">>, val))
       [] is(<<"b", "a", "s", "e", "1", "6">>) ->
            (IF IsIntLike(val) THEN Ret(PyStr(HexStr(IntOf(val))))
             ELSE IF IsDatetime(val) THEN Ret(PyStr(<<"0", "8", "x">>))
             ELSE Raise("ValueError"))
       [] is(<<"b", "a", "s", "e", "2">>) ->
            (IF IsIntLike(val) THEN Ret(PyStr(Bin32Str(IntOf(val)))) ELSE ParseBin(StrChars(val)))
       [] is(<<"i", "n", "t", "e", "r", "f", "a", "c", "e", "_", "i", "d">>)
            /\ Truthy(self.reg_hive_path) ->
            Ret(InterfaceId(self, val))
       [] OTHER -> Ret(val)

\* FormatOutputForGui without the except clause
FormatOutputForGui_NoExcept(self, val, fmt) ==
  IF val.k = "none" THEN Ret(PyStr(<<"N", "o", "n", "e">>))
  ELSE IF fmt.k = "none" THEN Ret(Str(val))
  ELSE IF fmt.k /= "str" THEN Raise("AttributeError")
  ELSE LET Shown(r) == IF r.raised THEN r ELSE Ret(Str(r.val))
       IN Shown(FormatDirective(self, val, fmt.v))

\* SrumAnalyzer._format_output_for_gui: fmt.lower() raises AttributeError
\* for a directive cell that is neither None nor a str
FormatOutputForGui(self, val, fmt) ==
  IF val.k = "none" THEN Ret(PyStr(<<"N", "o", "n", "e">>))
  ELSE IF fmt.k = "none" THEN Ret(Str(val))
  ELSE IF fmt.k /= "str" THEN Raise("AttributeError")
  ELSE LET r == FormatDirective(self, val, fmt.v)
       IN Ret(Str(IF r.raised THEN val ELSE r.val))

(***************************************************************************)
(* The schema workbook as openpyxl presents it                             *)
(*   workbook = sequence of sheets, in wb.sheetnames order                 *)
(*   sheet    = [name, grid], grid[r][c] the value of cell (r, c)          *)
(***************************************************************************)
Cell(sheet, r, c) ==
  IF r \in 1..Len(sheet.grid) /\ c \in 1..Len(sheet.grid[r]) THEN sheet.grid[r][c] ELSE NoneVal

Max(a, b) == IF a >= b THEN a ELSE b

RECURSIVE MaxRowLen(_)
MaxRowLen(grid) == IF grid = <<>> THEN 1 ELSE Max(Len(Head(grid)), MaxRowLen(Tail(grid)))

\* sheet.max_column and sheet.max_row (1 for an empty sheet)
MaxColumn(sheet) == MaxRowLen(sheet.grid)

MaxRow(sheet) == Max(1, Len(sheet.grid))

\* name.lower().startswith("lookup-")
IsLookupSheet(name) == StartsWith(Lower(name), LookupMarker)

\* the rows loop of _load_template_lookups, rows r..max_row into table
RECURSIVE LookupRows(_, _, _)
LookupRows(sheet, r, table) ==
  IF r > MaxRow(sheet) THEN table
  ELSE LookupRows(sheet, r + 1,
                  IF Cell(sheet, r, 1).k /= "none"
                  THEN DictSet(table, Cell(sheet, r, 1), Cell(sheet, r, 2))
                  ELSE table)

\* SrumAnalyzer._load_template_lookups, sheets i.. into lookups
RECURSIVE LoadTemplateLookupsFrom(_, _, _)
LoadTemplateLookupsFrom(wb, i, lookups) ==
  IF i > Len(wb) THEN lookups
  ELSE LoadTemplateLookupsFrom(wb, i + 1,
         IF IsLookupSheet(wb[i].name)
         THEN DictSet(lookups, PyStr(Split(wb[i].name, "-")[2]),
                      LookupRows(wb[i], 1, EmptyDict))
         ELSE lookups)

LoadTemplateLookups(wb) == LoadTemplateLookupsFrom(wb, 1, EmptyDict)

NormalStyle == "Normal"

\* the columns loop of _load_template_tables, columns col.. into fields
RECURSIVE TemplateFields(_, _, _)
TemplateFields(sheet, col, fields) ==
  IF col > MaxColumn(sheet) THEN fields
  ELSE LET field_name == Cell(sheet, 2, col)
       IN IF ~Truthy(field_name) THEN fields
          ELSE TemplateFields(sheet, col + 1,
                 DictSet(fields, field_name,
                         <<NormalStyle, Cell(sheet, 3, col),
                           IF Truthy(Cell(sheet, 4, col)) THEN Cell(sheet, 4, col)
                           ELSE field_name>>))

\* SrumAnalyzer._load_template_tables, sheets i.. into tables
RECURSIVE LoadTemplateTablesFrom(_, _, _)
LoadTemplateTablesFrom(wb, i, tables) ==
  IF i > Len(wb) THEN tables
  ELSE LoadTemplateTablesFrom(wb, i + 1,
         IF IsLookupSheet(wb[i].name) \/ ~Truthy(Cell(wb[i], 1, 1)) THEN tables
         ELSE DictSet(tables, Cell(wb[i], 1, 1),
                      <<PyStr(wb[i].name), TemplateFields(wb[i], 1, EmptyDict)>>))

LoadTemplateTables(wb) == LoadTemplateTablesFrom(wb, 1, EmptyDict)

\* SrumAnalyzer._ese_table_guid_to_name
EseTableGuidToName(self, t) ==
  IF DictHas(self.template_tables, PyStr(t.name))
  THEN self.template_tables[PyStr(t.name)][1]
  ELSE PyStr(t.name)

(***************************************************************************)
(* Binary SID decoding and the ID-Map Resolver                             *)
(***************************************************************************)
\* the sub-authority loop of _binary_sid_to_string_sid, from index i
RECURSIVE SubAuthorities(_, _, _)
SubAuthorities(sid, i, count) ==
  IF i >= count THEN Ret(PyStr(<<>>))
  ELSE IF Len(sid) < 12 + 4 * i THEN Raise("struct.error")
  ELSE LET rest == SubAuthorities(sid, i + 1, count)
       IN IF rest.raised THEN rest
          ELSE Ret(PyStr(<<"-">> \o NatToChars(LEUnsigned(SubSeq(sid, 9 + 4 * i, 12 + 4 * i)))
                         \o rest.val.v))

\* the try block of _binary_sid_to_string_sid
BinarySidTry(self, sid_hex) ==
  LET Name(sid_str) ==
        DictGet(DictGet(self.template_lookups, PyStr(KnownSidsName), EmptyDict),
                PyStr(sid_str), PyStr(<<"u", "n", "k", "n", "o", "w", "n">>))
      Named(sid_str) ==
        Ret(PyStr(sid_str \o <<" ", "(">> \o StrChars(Name(sid_str)) \o <<")">>))
      WithSubs(sid, subs) ==
        IF subs.raised THEN subs
        ELSE Named(<<"S", "-">> \o NatToChars(sid[1]) \o <<"-">>
                   \o NatToChars(BEUnsigned(SubSeq(sid, 3, 8))) \o subs.val.v)
      Sid(dec) ==
        IF dec.raised THEN dec
        ELSE IF Len(dec.val.v) < 2 THEN Raise("IndexError")
        ELSE IF Len(dec.val.v) < 8 THEN Raise("struct.error")
        ELSE WithSubs(dec.val.v, SubAuthorities(dec.val.v, 0, dec.val.v[2]))
  IN Sid(CASE sid_hex.k = "str" -> HexDecode(sid_hex.v)
           [] sid_hex.k = "bytes" -> HexDecode(CodePointsToChars(sid_hex.v))
           [] OTHER -> Raise("TypeError"))

\* BinarySidToStringSid that never looks the SID up in Known SIDS
BinarySidToStringSid_NoLookup(self, sid_hex) ==
  IF ~Truthy(sid_hex) THEN PyStr(<<>>)
  ELSE OrElse(BinarySidTry([self EXCEPT !.template_lookups = EmptyDict], sid_hex),
              PyStr(InvalidSidStr))

\* BinarySidToStringSid giving the empty string on a parse failure
BinarySidToStringSid_EmptyOnError(self, sid_hex) ==
  IF ~Truthy(sid_hex) THEN PyStr(<<>>)
  ELSE OrElse(BinarySidTry(self, sid_hex), PyStr(<<>>))

\* SrumAnalyzer._binary_sid_to_string_sid
BinarySidToStringSid(self, sid_hex) ==
  IF ~Truthy(sid_hex) THEN PyStr(<<>>)
  ELSE OrElse(BinarySidTry(self, sid_hex), PyStr(InvalidSidStr))

\* database.get_table_by_name: the table's position, 0 when there is none
TableIndexByName(db, name) ==
  IF \E i \in 1..Len(db) : db[i].name = name
  THEN CHOOSE i \in 1..Len(db) : db[i].name = name
  ELSE 0

\* column_lookup[name] of _load_srumid_lookups: the position (from 0) of the
\* last column so named, -1 when absent (KeyError)
ColumnLookup(t, name) ==
  IF \E i \in 1..Len(t.columns) : t.columns[i].name = name
  THEN (CHOOSE i \in 1..Len(t.columns) :
          /\ t.columns[i].name = name
          /\ \A j \in (i + 1)..Len(t.columns) : t.columns[j].name /= name) - 1
  ELSE -1

RECURSIVE SrumIdRecords(_, _, _, _)
\* SrumIdRecords passing every blob that is not a sentinel to the
\* normalizer, whatever its IdType
SrumIdRecords_NoSidBranch(self, t, rec_num, id_lookup) ==
  LET Retrieve(name) ==
        IF ColumnLookup(t, name) < 0 THEN RaiseArg("KeyError", PyStr(name))
        ELSE SmartRetrieve(t, rec_num, ColumnLookup(t, name))
      Blob(blob) ==
        IF ~StrEq(blob, EmptyStr) /\ ~StrEq(blob, ErrorStr) THEN BlobToString(blob)
        ELSE blob
      Stored(blob, idx) ==
        IF idx.raised THEN idx
        ELSE SrumIdRecords(self, t, rec_num + 1, DictSet(id_lookup, idx.val, Blob(blob.val)))
      Typed(blob, id_type) ==
        IF id_type.raised THEN id_type ELSE Stored(blob, Retrieve(IdIndex))
      Read(blob) ==
        IF blob.raised THEN blob ELSE Typed(blob, Retrieve(IdType))
  IN IF rec_num >= EseTableRecordCount(t) THEN Ret(id_lookup)
     ELSE Read(Retrieve(IdBlob))

\* the record loop of _load_srumid_lookups, records rec_num.. into id_lookup
SrumIdRecords(self, t, rec_num, id_lookup) ==
  LET \* self._smart_retrieve(lookup_table, rec_num, column_lookup[name])
      Retrieve(name) ==
        IF ColumnLookup(t, name) < 0 THEN RaiseArg("KeyError", PyStr(name))
        ELSE SmartRetrieve(t, rec_num, ColumnLookup(t, name))
      Blob(blob, id_type) ==
        IF IsIntLike(id_type) /\ IntOf(id_type) = 3 THEN BinarySidToStringSid(self, blob)
        ELSE IF ~StrEq(blob, EmptyStr) /\ ~StrEq(blob, ErrorStr) THEN BlobToString(blob)
        ELSE blob
      Stored(blob, id_type, idx) ==
        IF idx.raised THEN idx
        ELSE SrumIdRecords(self, t, rec_num + 1,
                           DictSet(id_lookup, idx.val, Blob(blob.val, id_type.val)))
      Typed(blob, id_type) ==
        IF id_type.raised THEN id_type ELSE Stored(blob, id_type, Retrieve(IdIndex))
      Read(blob) ==
        IF blob.raised THEN blob ELSE Typed(blob, Retrieve(IdType))
  IN IF rec_num >= EseTableRecordCount(t) THEN Ret(id_lookup)
     ELSE Read(Retrieve(IdBlob))

\* SrumAnalyzer._load_srumid_lookups
LoadSrumIdLookups(self, db) ==
  IF TableIndexByName(db, SruDbIdMapTable) = 0 THEN Ret(EmptyDict)
  ELSE SrumIdRecords(self, db[TableIndexByName(db, SruDbIdMapTable)], 0, EmptyDict)

(***************************************************************************)
(* The Table Processor                                                     *)
(***************************************************************************)
IsTemplated(self, t) == DictHas(self.template_tables, PyStr(t.name))

TemplateFieldsOf(self, t) == self.template_tables[PyStr(t.name)][2]

\* HeaderRow with the raw column name in every entry
HeaderRow_RawNames(self, t) ==
  [c \in 1..Len(t.columns) |-> PyStr(t.columns[c].name)]

\* the header row of _process_srum_tables
HeaderRow(self, t) ==
  [c \in 1..Len(t.columns) |->
     IF IsTemplated(self, t) /\ DictHas(TemplateFieldsOf(self, t), PyStr(t.columns[c].name))
     THEN TemplateFieldsOf(self, t)[PyStr(t.columns[c].name)][3]
     ELSE PyStr(t.columns[c].name)]

\* GuiCell appending val itself, not str(val), for a column without template
GuiCell_NoStr(self, t, row_num, col_num) ==
  LET column_name == t.columns[col_num + 1].name
      Shown(r) ==
        IF r.raised THEN r
        ELSE IF StrEq(r.val, ErrorStr) THEN Ret(PyStr(WarningPrefix \o column_name))
        ELSE IF r.val.k = "none" THEN Ret(PyStr(<<"N", "o", "n", "e">>))
        ELSE IF IsTemplated(self, t) /\ DictHas(TemplateFieldsOf(self, t), PyStr(column_name))
        THEN FormatOutputForGui(self, r.val, TemplateFieldsOf(self, t)[PyStr(column_name)][2])
        ELSE Ret(r.val)
  IN Shown(SmartRetrieve(t, row_num, col_num))

\* GuiCell without the test for the error sentinel
GuiCell_NoWarning(self, t, row_num, col_num) ==
  LET column_name == t.columns[col_num + 1].name
      Shown(r) ==
        IF r.raised THEN r
        ELSE IF r.val.k = "none" THEN Ret(PyStr(<<"N", "o", "n", "e">>))
        ELSE IF IsTemplated(self, t) /\ DictHas(TemplateFieldsOf(self, t), PyStr(column_name))
        THEN FormatOutputForGui(self, r.val, TemplateFieldsOf(self, t)[PyStr(column_name)][2])
        ELSE Ret(Str(r.val))
  IN Shown(SmartRetrieve(t, row_num, col_num))

\* one cell of the column loop of _process_srum_tables: the str appended
\* to gui_row, or the exception that leaves the loop
GuiCell(self, t, row_num, col_num) ==
  LET column_name == t.columns[col_num + 1].name
      Shown(r) ==
        IF r.raised THEN r
        ELSE IF StrEq(r.val, ErrorStr) THEN Ret(PyStr(WarningPrefix \o column_name))
        ELSE IF r.val.k = "none" THEN Ret(PyStr(<<"N", "o", "n", "e">>))
        ELSE IF IsTemplated(self, t) /\ DictHas(TemplateFieldsOf(self, t), PyStr(column_name))
        THEN FormatOutputForGui(self, r.val, TemplateFieldsOf(self, t)[PyStr(column_name)][2])
        ELSE Ret(Str(r.val))
  IN Shown(SmartRetrieve(t, row_num, col_num))

\* the column loop for one record, columns col_num.. appended to gui_row
RECURSIVE GuiRow(_, _, _, _, _)
GuiRow(self, t, row_num, col_num, gui_row) ==
  LET Appended(c) ==
        IF c.raised THEN c
        ELSE GuiRow(self, t, row_num, col_num + 1, Append(gui_row, c.val))
  IN IF col_num >= Len(t.columns) THEN Ret(gui_row)
     ELSE Appended(GuiCell(self, t, row_num, col_num))

RECURSIVE TableRows(_, _, _, _, _)
\* TableRows ending the record loop at the first record it cannot get
TableRows_Break(self, t, row_num, num_recs, table_data) ==
  LET Appended(row) ==
        IF row.raised THEN row
        ELSE TableRows(self, t, row_num + 1, num_recs, Append(table_data, row.val))
  IN IF row_num >= num_recs THEN Ret(table_data)
     ELSE IF ~EseTableGetRecord(t, row_num).readable THEN Ret(table_data)
     ELSE Appended(GuiRow(self, t, row_num, 0, <<>>))

\* the record loop, records row_num.. appended to table_data
TableRows(self, t, row_num, num_recs, table_data) ==
  LET Appended(row) ==
        IF row.raised THEN row
        ELSE TableRows(self, t, row_num + 1, num_recs, Append(table_data, row.val))
  IN IF row_num >= num_recs THEN Ret(table_data)
     ELSE IF ~EseTableGetRecord(t, row_num).readable
     THEN TableRows(self, t, row_num + 1, num_recs, table_data)
     ELSE Appended(GuiRow(self, t, row_num, 0, <<>>))

\* ProcessTable without the skip-list test
ProcessTable_NoSkip(self, t, skip_tables, all_tables_data) ==
  LET Stored(rows) ==
        IF rows.raised THEN rows
        ELSE Ret(DictSet(all_tables_data, EseTableGuidToName(self, t), rows.val))
  IN IF EseTableRecordCount(t) = 0 THEN Ret(all_tables_data)
     ELSE Stored(TableRows(self, t, 0, EseTableRecordCount(t), <<HeaderRow(self, t)>>))

\* ProcessTable without the zero-record test
ProcessTable_NoZeroCheck(self, t, skip_tables, all_tables_data) ==
  LET Stored(rows) ==
        IF rows.raised THEN rows
        ELSE Ret(DictSet(all_tables_data, EseTableGuidToName(self, t), rows.val))
  IN IF t.name \in skip_tables THEN Ret(all_tables_data)
     ELSE Stored(TableRows(self, t, 0, EseTableRecordCount(t), <<HeaderRow(self, t)>>))

\* one iteration of the table loop of _process_srum_tables: all_tables_data
\* after table t, or the exception raised in it
ProcessTable(self, t, skip_tables, all_tables_data) ==
  LET Stored(rows) ==
        IF rows.raised THEN rows
        ELSE Ret(DictSet(all_tables_data, EseTableGuidToName(self, t), rows.val))
  IN IF t.name \in skip_tables THEN Ret(all_tables_data)
     ELSE IF EseTableRecordCount(t) = 0 THEN Ret(all_tables_data)
     ELSE Stored(TableRows(self, t, 0, EseTableRecordCount(t), <<HeaderRow(self, t)>>))

\* SrumAnalyzer._process_srum_tables, tables table_num.. (from 0)
RECURSIVE ProcessTablesFrom(_, _, _, _, _)
ProcessTablesFrom(self, db, skip_tables, table_num, all_tables_data) ==
  LET Continued(r) ==
        IF r.raised THEN r
        ELSE ProcessTablesFrom(self, db, skip_tables, table_num + 1, r.val)
  IN IF table_num >= Len(db) THEN Ret(all_tables_data)
     ELSE Continued(ProcessTable(self, db[table_num + 1], skip_tables, all_tables_data))

ProcessSrumTables(self, db, skip_tables) == ProcessTablesFrom(self, db, skip_tables, 0, EmptyDict)

(***************************************************************************)
(* The Registry Side-Channel Loader                                        *)
(*   hive      = [readable, has_profile_list, profiles, has_interfaces,    *)
(*                interfaces]                                              *)
(*   profile   = [name, image_path]  (image_path None: the value is absent)*)
(*   interface = [has_profiles, profiles], each profile                    *)
(*               [profile_index, has_metadata, metadata], each metadata    *)
(*               value [name, value]                                       *)
(***************************************************************************)
\* the subkey loop of _load_registry_sids; any failure discards the mapping
RECURSIVE RegistrySidsFrom(_, _, _)
RegistrySidsFrom(profiles, i, sids) ==
  IF i > Len(profiles) THEN Ret(sids)
  ELSE IF profiles[i].image_path.k /= "str" THEN Raise("RegistryValueNotFoundException")
  ELSE LET parts == Split(profiles[i].image_path.v, "<92>")
       IN RegistrySidsFrom(profiles, i + 1,
                           DictSet(sids, PyStr(profiles[i].name), PyStr(parts[Len(parts)])))

\* LoadRegistrySids returning the entries read before the failure
LoadRegistrySids_KeepRead(hive) ==
  IF ~hive.readable \/ ~hive.has_profile_list THEN EmptyDict
  ELSE LET bad == {i \in 1..Len(hive.profiles) : hive.profiles[i].image_path.k /= "str"}
           n == IF bad = {} THEN Len(hive.profiles)
                ELSE (CHOOSE i \in bad : \A j \in bad : i <= j) - 1
       IN RegistrySidsFrom(SubSeq(hive.profiles, 1, n), 1, EmptyDict).val

\* SrumAnalyzer._load_registry_sids
LoadRegistrySids(hive) ==
  IF ~hive.readable \/ ~hive.has_profile_list THEN EmptyDict
  ELSE LET r == RegistrySidsFrom(hive.profiles, 1, EmptyDict)
       IN IF r.raised THEN EmptyDict ELSE r.val

\* the metadata loop of _load_interfaces for one profile: [raised, val],
\* val the lookup built so far (kept when an exception ends the loader)
RECURSIVE InterfaceHints(_, _, _, _)
InterfaceHints(metadata, i, profileid, profile_lookup) ==
  IF i > Len(metadata) THEN [raised |-> FALSE, val |-> profile_lookup]
  ELSE IF metadata[i].name \notin {"Channel Hints", "Band Channel Hints"}
  THEN InterfaceHints(metadata, i + 1, profileid, profile_lookup)
  ELSE IF metadata[i].value.k /= "bytes" \/ Len(metadata[i].value.v) < 4
  THEN [raised |-> TRUE, val |-> profile_lookup]
  ELSE LET raw == metadata[i].value.v
           hintlength == LEUnsigned(SubSeq(raw, 1, 4))
           last == IF hintlength + 4 < Len(raw) THEN hintlength + 4 ELSE Len(raw)
           name == SubSeq(raw, 5, last)
       IN InterfaceHints(metadata, i + 1, profileid,
                         DictSet(profile_lookup, Str(profileid), PyStr(CodePointsToChars(name))))

\* the profile loop of _load_interfaces for one interface
RECURSIVE InterfaceProfiles(_, _, _)
InterfaceProfiles(profiles, i, profile_lookup) ==
  IF i > Len(profiles) THEN [raised |-> FALSE, val |-> profile_lookup]
  ELSE IF profiles[i].profile_index.k = "none" \/ ~profiles[i].has_metadata
  THEN InterfaceProfiles(profiles, i + 1, profile_lookup)
  ELSE LET r == InterfaceHints(profiles[i].metadata, 1, profiles[i].profile_index,
                               profile_lookup)
       IN IF r.raised THEN r ELSE InterfaceProfiles(profiles, i + 1, r.val)

\* the interface loop of _load_interfaces
RECURSIVE InterfacesFrom(_, _, _)
InterfacesFrom(interfaces, i, profile_lookup) ==
  IF i > Len(interfaces) THEN [raised |-> FALSE, val |-> profile_lookup]
  ELSE IF ~interfaces[i].has_profiles THEN InterfacesFrom(interfaces, i + 1, profile_lookup)
  ELSE LET r == InterfaceProfiles(interfaces[i].profiles, 1, profile_lookup)
       IN IF r.raised THEN r ELSE InterfacesFrom(interfaces, i + 1, r.val)

\* SrumAnalyzer._load_interfaces: what was built when an exception occurs
LoadInterfaces(hive) ==
  IF ~hive.readable \/ ~hive.has_interfaces THEN EmptyDict
  ELSE InterfacesFrom(hive.interfaces, 1, EmptyDict).val

(***************************************************************************)
(* SrumAnalyzer: construction and the steps of analyze()                   *)
(***************************************************************************)
\* SrumAnalyzer.__init__
NewAnalyzer(reg_hive_path) ==
  [reg_hive_path |-> reg_hive_path,
   template_tables |-> EmptyDict,
   template_lookups |-> EmptyDict,
   id_table |-> EmptyDict,
   interface_table |-> EmptyDict,
   regsids |-> EmptyDict]

\* analyze(): the registry side channel, run only when a hive path is given
AnalyzeLoadRegistry(self, hive) ==
  IF Truthy(self.reg_hive_path)
  THEN [self EXCEPT !.interface_table = LoadInterfaces(hive),
                    !.regsids = LoadRegistrySids(hive)]
  ELSE self

\* MergeKnownSids keeping the workbook's entry for a key that both have
MergeKnownSids_SheetWins(lookups, regsids) ==
  IF DOMAIN regsids /= {}
  THEN DictSet(lookups, PyStr(KnownSidsName),
               DictUpdate(regsids, DictGet(lookups, PyStr(KnownSidsName), EmptyDict)))
  ELSE lookups

\* analyze(): template_lookups.setdefault("Known SIDS", {}).update(regsids)
MergeKnownSids(lookups, regsids) ==
  IF DOMAIN regsids /= {}
  THEN DictSet(lookups, PyStr(KnownSidsName),
               DictUpdate(DictGet(lookups, PyStr(KnownSidsName), EmptyDict), regsids))
  ELSE lookups

\* AnalyzeLoadSchema adding the workbook's tables and lookups to those the
\* analyzer already holds
AnalyzeLoadSchema_Keep(self, wb) ==
  [self EXCEPT !.template_tables = DictUpdate(self.template_tables, LoadTemplateTables(wb)),
               !.template_lookups =
                 MergeKnownSids(DictUpdate(self.template_lookups, LoadTemplateLookups(wb)),
                                self.regsids)]

\* analyze(): the schema load and the Known-SIDs merge
AnalyzeLoadSchema(self, wb) ==
  [self EXCEPT !.template_tables = LoadTemplateTables(wb),
               !.template_lookups = MergeKnownSids(LoadTemplateLookups(wb), self.regsids)]

\* str(e) of the exceptions that can leave analyze() other than IOError
ExcMessage(r) ==
  CASE r.exc = "KeyError" -> (<<"<39>">> \o r.val.v \o <<"<39>">>)
    [] r.exc = "ValueError" -> <<"b", "y", "t", "e", "s", " ", "i", "s", " ", "n", "o", "t", " ",
                               "a", " ", "1", "6", "-", "c", "h", "a", "r", " ",
                               "s", "t", "r", "i", "n", "g">>
    [] OTHER -> <<"n", "o", " ", "a", "t", "t", "r", "i", "b", "u", "t", "e", " ",
                  "<39>", "l", "o", "w", "e", "r", "<39>">>

(***************************************************************************)
(* Bounds and the input files the model runs on                            *)
(***************************************************************************)
\* the most tables in a database and the most sheets in a workbook
MaxTables == 2

MaxSheets == 1

B(bs) == PyBytes(bs)

Column(name, type) == [name |-> name, type |-> type]

Record(data) == [readable |-> TRUE, decodable |-> TRUE, data |-> data]

Table(name, columns, records) ==
  [name |-> name, columns |-> columns, count_raises |-> FALSE, records |-> records]

AppName == <<"A", "p", "p">>

NetName == <<"N", "e", "t">>

AppColumns ==
  << Column(<<"A", "p", "p", "I", "d">>, "INTEGER_32BIT_UNSIGNED"),
     Column(<<"N", "a", "m", "e">>, "TEXT"),
     Column(<<"T", "i", "m", "e", "S", "t", "a", "m", "p">>, "DATE_TIME") >>

NetColumns ==
  << Column(<<"G", "u", "i", "d">>, "GUID"),
     Column(<<"R", "a", "t", "e">>, "FLOAT_32BIT") >>

IdMapColumns ==
  << Column(IdType, "INTEGER_8BIT_UNSIGNED"),
     Column(IdIndex, "INTEGER_32BIT_SIGNED"),
     Column(IdBlob, "BINARY_DATA") >>

\* 1, "AB" in UTF-16LE, the OLE date 0.0
RecA1 == Record(<<B(<<1, 0, 0, 0>>), B(<<65, 0, 66, 0, 0, 0>>), B(<<0, 0, 0, 0, 0, 0, 0, 0>>)>>)

\* 2, "C" in Latin-1, the OLE date 1.0
RecA2 == Record(<<B(<<2, 0, 0, 0>>), B(<<67, 0>>), B(<<0, 0, 0, 0, 0, 0, 240, 63>>)>>)

\* a truncated integer, an absent value, a truncated date
RecATruncated == Record(<<B(<<7, 0, 0>>), NoneVal, B(<<0, 0>>)>>)

\* a text cell that spells Error
RecAError ==
  Record(<<B(<<3, 0, 0, 0>>), B(<<69, 114, 114, 111, 114>>), B(<<0, 0, 0, 0, 0, 0, 0, 0>>)>>)

\* a record the record loop gets and _smart_retrieve then fails to get
RecAFlaky == [RecA2 EXCEPT !.decodable = FALSE]

Guid16 == <<1, 2, 3, 4, 5, 6, 7, 8, 9, 10, 11, 12, 13, 14, 15, 16>>

RecN1 == Record(<<B(Guid16), B(<<0, 0, 128, 63>>)>>)

\* a truncated float
RecNFloatTruncated == Record(<<B(Guid16), B(<<0, 0>>)>>)

\* a truncated GUID
RecNGuidTruncated == Record(<<B(<<1, 2, 3>>), B(<<0, 0, 128, 63>>)>>)

\* the binary SID S-1-5-21-1000
SidBytes == <<1, 2, 0, 0, 0, 0, 0, 5, 21, 0, 0, 0, 232, 3, 0, 0>>

SidText == <<"S", "-", "1", "-", "5", "-", "2", "1", "-", "1", "0", "0", "0">>

TableApp2 == Table(AppName, AppColumns, <<RecA1, RecA2>>)

TableAppBad == Table(AppName, AppColumns, <<RecATruncated, NoRecord, RecAError, RecAFlaky>>)

TableAppZero == Table(AppName, AppColumns, <<>>)

\* two records, neither of which can be got
TableAppLost == Table(AppName, AppColumns, <<NoRecord, NoRecord>>)

\* number_of_records raises
TableAppCountRaises == [Table(AppName, AppColumns, <<RecA1>>) EXCEPT !.count_raises = TRUE]

TableNetGood == Table(NetName, NetColumns, <<RecN1, RecNFloatTruncated>>)

TableNetBad == Table(NetName, NetColumns, <<RecN1, RecNGuidTruncated, RecN1>>)

TableSys == Table(MSysObjects, <<Column(<<"N", "a", "m", "e">>, "TEXT")>>,
                  <<Record(<<B(<<65, 0, 66, 0, 0, 0>>)>>)>>)

\* a SID under index 1, the text AB under index 3, no blob under index 5,
\* and a record that cannot be got
TableIdMapGood ==
  Table(SruDbIdMapTable, IdMapColumns,
        << Record(<<B(<<3>>), B(<<1, 0, 0, 0>>), B(SidBytes)>>),
           Record(<<B(<<0>>), B(<<3, 0, 0, 0>>), B(<<65, 0, 66, 0, 0, 0>>)>>),
           Record(<<B(<<0>>), B(<<5, 0, 0, 0>>), NoneVal>>),
           NoRecord >>)

\* the ID-map table without its IdBlob column
TableIdMapNoBlob ==
  Table(SruDbIdMapTable, SubSeq(IdMapColumns, 1, 2), <<Record(<<B(<<0>>), B(<<1, 0, 0, 0>>)>>)>>)

TablePool ==
  {TableApp2, TableAppBad, TableAppZero, TableAppCountRaises, TableNetGood, TableNetBad,
   TableSys, TableIdMapGood, TableIdMapNoBlob}

\* ESE table names are unique within a database
DistinctNames(seq) == \A i, j \in 1..Len(seq) : i /= j => seq[i].name /= seq[j].name

Databases ==
  {db \in UNION {[1..n -> TablePool] : n \in 0..MaxTables} : DistinctNames(db)}

OpenError == <<"E", "N", "O", "E", "N", "T">>

\* a file that opens, with its content, or one whose open raises error
SrumFiles ==
  {[openable |-> TRUE, error |-> <<>>, tables |-> db] : db \in Databases}
  \cup {[openable |-> FALSE, error |-> OpenError, tables |-> <<>>]}

S(chars) == PyStr(chars)

Sheet(name, grid) == [name |-> name, grid |-> grid]

NamesLookup == <<"N", "a", "m", "e", "s">>

\* the template of table App, shown as Apps
SheetApps ==
  Sheet(<<"A", "p", "p", "s">>,
        << <<S(AppName)>>,
           <<S(<<"A", "p", "p", "I", "d">>), S(<<"N", "a", "m", "e">>),
             S(<<"T", "i", "m", "e", "S", "t", "a", "m", "p">>)>>,
           <<S(<<"l", "o", "o", "k", "u", "p", "_", "i", "d">>),
             S(LookupMarker \o NamesLookup),
             S(<<"O", "L", "E", ":", "%", "Y">>)>>,
           <<S(<<"A", "p", "p", "l", "i", "c", "a", "t", "i", "o", "n">>), NoneVal,
             S(<<"T", "i", "m", "e">>)>> >>)

\* a template of table Net on a sheet named MSysObjects
SheetNetAsSys ==
  Sheet(MSysObjects,
        << <<S(NetName)>>, <<S(<<"G", "u", "i", "d">>)>>, <<NoneVal>>,
           <<S(<<"G", "U", "I", "D">>)>> >>)

\* a template of table Net on a sheet named App
SheetNetAsApp ==
  Sheet(AppName,
        << <<S(NetName)>>, <<S(<<"R", "a", "t", "e">>)>>,
           <<S(<<"b", "a", "s", "e", "1", "6">>)>>, <<NoneVal>> >>)

SheetLookupNames ==
  Sheet(LookupMarker \o NamesLookup,
        << <<S(<<"A", "B">>), S(<<"A", "l", "p", "h", "a">>)>>,
           <<NoneVal, S(<<"s", "k", "i", "p">>)>>,
           <<PyInt(1), S(<<"O", "n", "e">>)>> >>)

\* a Known SIDS lookup sheet: a user name for a SID, and a row without value
SheetLookupKnownSids ==
  Sheet(<<"L", "O", "O", "K", "U", "P", "-">> \o KnownSidsName,
        << <<S(SidText), S(<<"b", "o", "b">>)>>, <<PyInt(7), NoneVal>> >>)

\* a Known SIDS lookup sheet with another user name for the SID of the
\* registry, and a SID the registry does not have
SheetLookupKnownSidsOld ==
  Sheet(<<"L", "O", "O", "K", "U", "P", "-">> \o KnownSidsName,
        << <<S(SidText), S(<<"o", "l", "d">>)>>,
           <<S(<<"S", "-", "1", "-", "5", "-", "1", "8">>), S(<<"s", "y", "s">>)>> >>)

SheetPool == {SheetApps, SheetNetAsSys, SheetNetAsApp, SheetLookupNames}

Workbooks ==
  {wb \in UNION {[1..n -> SheetPool] : n \in 0..MaxSheets} : DistinctNames(wb)}

TemplateFiles ==
  {[openable |-> TRUE, error |-> <<>>, sheets |-> wb] : wb \in Workbooks}
  \cup {[openable |-> FALSE, error |-> OpenError, sheets |-> <<>>]}

BobPath == <<"C", ":", "<92>", "U", "s", "e", "r", "s", "<92>", "b", "o", "b">>

WlanInterface ==
  [has_profiles |-> TRUE,
   profiles |-> << [profile_index |-> PyInt(1), has_metadata |-> TRUE,
                    metadata |-> << [name |-> "Channel Hints",
                                     value |-> B(<<2, 0, 0, 0, 72, 105, 0, 0>>)] >>] >>]

HiveGood ==
  [readable |-> TRUE, has_profile_list |-> TRUE,
   profiles |-> << [name |-> SidText, image_path |-> S(BobPath)] >>,
   has_interfaces |-> TRUE, interfaces |-> <<WlanInterface>>]

\* a hive whose second profile lacks ProfileImagePath and that has no WLAN key
HiveBroken ==
  [readable |-> TRUE, has_profile_list |-> TRUE,
   profiles |-> << [name |-> SidText, image_path |-> S(BobPath)],
                   [name |-> <<"S", "-", "1", "-", "5", "-", "1", "8">>,
                    image_path |-> NoneVal] >>,
   has_interfaces |-> FALSE, interfaces |-> <<>>]

HivePath == S(<<"S", "O", "F", "T", "W", "A", "R", "E">>)

\* the reg_hive_path argument with the hive it names
HiveChoices ==
  {[path |-> NoneVal, hive |-> HiveGood], [path |-> HivePath, hive |-> HiveGood],
   [path |-> HivePath, hive |-> HiveBroken]}

(***************************************************************************)
(* State                                                                   *)
(***************************************************************************)
VARIABLES
  srum_file,        \* the file at srum_path
  template_file,    \* the file at template_path
  hive,             \* the registry hive at reg_hive_path
  self,             \* the SrumAnalyzer: the fields __init__ sets
  pc,               \* where analyze() stands
  ese_db,           \* the database handle: "none", "open", "closed"
  table_num,        \* _process_srum_tables: the next table
  all_tables_data,  \* _process_srum_tables: the mapping built so far
  outcome,          \* how analyze() ended: [status, exc, message, data]
  history,          \* how the earlier analyze() runs ended, oldest first
  imports_available,     \* SRUM_IMPORTS_AVAILABLE
  exists,                \* os.path.exists of SRUDB.dat, the template, the hive
  srum_analysis_thread,  \* AnalysisPage.srum_analysis_thread: 0 for None
  threads,               \* the SrumAnalysisThread objects created so far
  signals,               \* finished signals queued for the GUI thread
  callbacks,             \* the deliveries to on_srum_analysis_finished so far
  view,                  \* the widget shown in the right panel
  srum_tabs,             \* the tabs of srum_tab_widget
  placeholder_text,      \* the text of placeholder_label
  crashed,               \* the process was aborted by Qt
  fmt_pc,                \* the format run: "load", "format", "done"
  fmt_wb,                \* the format run: the workbook
  fmt_self,              \* the format run: the analyzer
  fmt_val,               \* the format run: the decoded value
  fmt_fmt,               \* the format run: the directive cell
  fmt_result,            \* the format run: what _format_output_for_gui gave
  dec_pc,                \* the decoder run: "call", "done"
  dec_fn,                \* the decoder run: the helper called
  dec_self,              \* the decoder run: the analyzer
  dec_arg,               \* the decoder run: the argument of the call
  dec_result             \* the decoder run: what the call gave

analyzeVars ==
  <<srum_file, template_file, hive, self, pc, ese_db, table_num, all_tables_data, outcome>>

pageVars ==
  <<imports_available, exists, srum_analysis_thread, threads, signals, callbacks, view,
    srum_tabs, placeholder_text, crashed>>

fmtVars == <<fmt_pc, fmt_wb, fmt_self, fmt_val, fmt_fmt, fmt_result>>

decVars == <<dec_pc, dec_fn, dec_self, dec_arg, dec_result>>

vars == <<analyzeVars, history, pageVars, fmtVars, decVars>>

Running == [status |-> "running", exc |-> "", message |-> <<>>, data |-> EmptyDict]

Returned(data, message) ==
  [status |-> "returned", exc |-> "", message |-> message, data |-> data]

Raised(exc, message) ==
  [status |-> "raised", exc |-> exc, message |-> message, data |-> EmptyDict]

\* no page activity: the state of a freshly built AnalysisPage
PageIdle ==
  /\ imports_available = TRUE
  /\ exists = [srum |-> TRUE, template |-> TRUE, reg |-> TRUE]
  /\ srum_analysis_thread = 0
  /\ threads = <<>>
  /\ signals = <<>>
  /\ callbacks = <<>>
  /\ view = "placeholder"
  /\ srum_tabs = {}
  /\ placeholder_text = ""
  /\ crashed = FALSE

\* no format run
FormatIdle ==
  /\ fmt_pc = "done"
  /\ fmt_wb = <<>>
  /\ fmt_self = NewAnalyzer(NoneVal)
  /\ fmt_val = NoneVal
  /\ fmt_fmt = NoneVal
  /\ fmt_result = Ret(NoneVal)

\* no decoder run
DecodeIdle ==
  /\ dec_pc = "done"
  /\ dec_fn = ""
  /\ dec_self = NewAnalyzer(NoneVal)
  /\ dec_arg = NoneVal
  /\ dec_result = Ret(NoneVal)

\* a SrumAnalyzer constructed on some input files, analyze() not yet called
Init ==
  /\ PageIdle
  /\ FormatIdle
  /\ DecodeIdle
  /\ srum_file \in SrumFiles
  /\ template_file \in TemplateFiles
  /\ \E h \in HiveChoices : hive = h.hive /\ self = NewAnalyzer(h.path)
  /\ pc = "start"
  /\ ese_db = "none"
  /\ table_num = 0
  /\ all_tables_data = EmptyDict
  /\ outcome = Running
  /\ history = <<>>

(***************************************************************************)
(* analyze(), step by step                                                 *)
(***************************************************************************)
\* if self.reg_hive_path: load the interface table and the registry SIDs
AnalyzeRegistry ==
  /\ pc = "start"
  /\ self' = AnalyzeLoadRegistry(self, hive)
  /\ pc' = "open_db"
  /\ UNCHANGED <<srum_file, template_file, hive, ese_db, table_num, all_tables_data, outcome>>
  /\ UNCHANGED <<history, pageVars, fmtVars, decVars>>

\* ese_db.open(self.srum_path), IOError on failure
AnalyzeOpenDatabase ==
  /\ pc = "open_db"
  /\ IF srum_file.openable
     THEN /\ ese_db' = "open"
          /\ pc' = "open_wb"
          /\ UNCHANGED outcome
     ELSE /\ outcome' = Raised("IOError", SrumFileErrorPrefix \o srum_file.error)
          /\ pc' = "done"
          /\ UNCHANGED ese_db
  /\ UNCHANGED <<srum_file, template_file, hive, self, table_num, all_tables_data>>
  /\ UNCHANGED <<history, pageVars, fmtVars, decVars>>

\* AnalyzeOpenWorkbook raising without closing the database
AnalyzeOpenWorkbook_NoClose ==
  /\ pc = "open_wb"
  /\ IF template_file.openable
     THEN /\ pc' = "load_schema"
          /\ UNCHANGED <<ese_db, outcome>>
     ELSE /\ outcome' = Raised("IOError", TemplateFileErrorPrefix \o template_file.error)
          /\ pc' = "done"
          /\ UNCHANGED ese_db
  /\ UNCHANGED <<srum_file, template_file, hive, self, table_num, all_tables_data>>
  /\ UNCHANGED <<history, pageVars, fmtVars, decVars>>

\* openpyxl.load_workbook(self.template_path); on failure close the
\* database and raise IOError
AnalyzeOpenWorkbook ==
  /\ pc = "open_wb"
  /\ IF template_file.openable
     THEN /\ pc' = "load_schema"
          /\ UNCHANGED <<ese_db, outcome>>
     ELSE /\ ese_db' = "closed"
          /\ outcome' = Raised("IOError", TemplateFileErrorPrefix \o template_file.error)
          /\ pc' = "done"
  /\ UNCHANGED <<srum_file, template_file, hive, self, table_num, all_tables_data>>
  /\ UNCHANGED <<history, pageVars, fmtVars, decVars>>

\* AnalyzeSchema going on to the table loop before the ID map is loaded
AnalyzeSchema_ProcessFirst ==
  /\ pc = "load_schema"
  /\ self' = AnalyzeLoadSchema(self, template_file.sheets)
  /\ pc' = "process"
  /\ UNCHANGED <<srum_file, template_file, hive, ese_db, table_num, all_tables_data, outcome>>
  /\ UNCHANGED <<history, pageVars, fmtVars, decVars>>

\* the template tables, the template lookups, the Known-SIDs merge
AnalyzeSchema ==
  /\ pc = "load_schema"
  /\ self' = AnalyzeLoadSchema(self, template_file.sheets)
  /\ pc' = "load_idmap"
  /\ UNCHANGED <<srum_file, template_file, hive, ese_db, table_num, all_tables_data, outcome>>
  /\ UNCHANGED <<history, pageVars, fmtVars, decVars>>

\* self.id_table = self._load_srumid_lookups(ese_db)
AnalyzeIdMap ==
  /\ pc = "load_idmap"
  /\ LET Assign(r) ==
           IF r.raised
           THEN /\ outcome' = Raised(r.exc, ExcMessage(r))
                /\ pc' = "done"
                /\ UNCHANGED self
           ELSE /\ self' = [self EXCEPT !.id_table = r.val]
                /\ pc' = "process"
                /\ UNCHANGED outcome
     IN Assign(LoadSrumIdLookups(self, srum_file.tables))
  /\ UNCHANGED <<srum_file, template_file, hive, ese_db, table_num, all_tables_data>>
  /\ UNCHANGED <<history, pageVars, fmtVars, decVars>>

\* one iteration of the table loop of _process_srum_tables
AnalyzeProcessTable ==
  /\ pc = "process"
  /\ table_num < Len(srum_file.tables)
  /\ LET Assign(r) ==
           IF r.raised
           THEN /\ outcome' = Raised(r.exc, ExcMessage(r))
                /\ pc' = "done"
                /\ UNCHANGED <<table_num, all_tables_data>>
           ELSE /\ all_tables_data' = r.val
                /\ table_num' = table_num + 1
                /\ UNCHANGED <<pc, outcome>>
     IN Assign(ProcessTable(self, srum_file.tables[table_num + 1], SkipTables,
                            all_tables_data))
  /\ UNCHANGED <<srum_file, template_file, hive, self, ese_db>>
  /\ UNCHANGED <<history, pageVars, fmtVars, decVars>>

\* the loop is over: ese_db.close() and return all_tables_data, message
AnalyzeClose ==
  /\ pc = "process"
  /\ table_num >= Len(srum_file.tables)
  /\ ese_db' = "closed"
  /\ outcome' = Returned(all_tables_data, FinishedMessage)
  /\ pc' = "done"
  /\ UNCHANGED <<srum_file, template_file, hive, self, table_num, all_tables_data>>
  /\ UNCHANGED <<history, pageVars, fmtVars, decVars>>

Next ==
  \/ AnalyzeRegistry
  \/ AnalyzeOpenDatabase
  \/ AnalyzeOpenWorkbook
  \/ AnalyzeSchema
  \/ AnalyzeIdMap
  \/ AnalyzeProcessTable
  \/ AnalyzeClose

Spec == Init /\ [][Next]_vars

(***************************************************************************)
(* analyze() run after run                                                 *)
(***************************************************************************)
\* the most analyze() runs in a behaviour
MaxRuns == 2

OpenableDb(db) == [openable |-> TRUE, error |-> <<>>, tables |-> db]

OpenableWb(wb) == [openable |-> TRUE, error |-> <<>>, sheets |-> wb]

\* the input files of one run
RerunWorlds ==
  { [srum |-> OpenableDb(<<TableApp2, TableIdMapGood>>),
     template |-> OpenableWb(<<SheetApps, SheetLookupNames>>), hive |-> HiveGood],
    [srum |-> OpenableDb(<<TableApp2>>), template |-> OpenableWb(<<>>),
     hive |-> [HiveGood EXCEPT !.readable = FALSE]],
    [srum |-> OpenableDb(<<TableNetGood, TableAppBad>>),
     template |-> OpenableWb(<<SheetNetAsApp>>), hive |-> HiveBroken],
    [srum |-> OpenableDb(<<TableNetBad>>), template |-> OpenableWb(<<SheetApps>>),
     hive |-> HiveGood],
    [srum |-> OpenableDb(<<TableApp2, TableIdMapNoBlob>>),
     template |-> OpenableWb(<<SheetApps>>), hive |-> HiveGood],
    [srum |-> [openable |-> FALSE, error |-> OpenError, tables |-> <<>>],
     template |-> OpenableWb(<<SheetApps>>), hive |-> HiveGood],
    [srum |-> OpenableDb(<<TableApp2>>),
     template |-> [openable |-> FALSE, error |-> OpenError, sheets |-> <<>>],
     hive |-> HiveGood],
    [srum |-> OpenableDb(<<TableApp2, TableIdMapGood>>),
     template |-> OpenableWb(<<SheetApps, SheetLookupKnownSids>>),
     hive |-> [HiveGood EXCEPT !.has_profile_list = FALSE]],
    [srum |-> OpenableDb(<<TableAppLost, TableNetGood>>),
     template |-> OpenableWb(<<SheetApps>>), hive |-> HiveGood],
    [srum |-> OpenableDb(<<TableIdMapGood>>),
     template |-> OpenableWb(<<SheetLookupKnownSidsOld>>), hive |-> HiveGood] }

\* the first run: a new analyzer on the files of some world
RerunInit ==
  /\ PageIdle
  /\ FormatIdle
  /\ DecodeIdle
  /\ \E w \in RerunWorlds :
       srum_file = w.srum /\ template_file = w.template /\ hive = w.hive
  /\ \E path \in {NoneVal, HivePath} : self = NewAnalyzer(path)
  /\ pc = "start"
  /\ ese_db = "none"
  /\ table_num = 0
  /\ all_tables_data = EmptyDict
  /\ outcome = Running
  /\ history = <<>>

\* analyze() called again on the same analyzer, the files being what they
\* are by then
AnalyzeAgain ==
  /\ pc = "done"
  /\ Len(history) + 1 < MaxRuns
  /\ history' = Append(history, outcome)
  /\ \E w \in RerunWorlds :
       srum_file' = w.srum /\ template_file' = w.template /\ hive' = w.hive
  /\ pc' = "start"
  /\ ese_db' = "none"
  /\ table_num' = 0
  /\ all_tables_data' = EmptyDict
  /\ outcome' = Running
  /\ UNCHANGED self
  /\ UNCHANGED <<pageVars, fmtVars, decVars>>

\* SrumAnalysisThread.run once more: a new SrumAnalyzer, then analyze()
AnalyzeAnother ==
  /\ pc = "done"
  /\ Len(history) + 1 < MaxRuns
  /\ history' = Append(history, outcome)
  /\ \E w \in RerunWorlds :
       srum_file' = w.srum /\ template_file' = w.template /\ hive' = w.hive
  /\ \E path \in {NoneVal, HivePath} : self' = NewAnalyzer(path)
  /\ pc' = "start"
  /\ ese_db' = "none"
  /\ table_num' = 0
  /\ all_tables_data' = EmptyDict
  /\ outcome' = Running
  /\ UNCHANGED <<pageVars, fmtVars, decVars>>

RerunNext == Next \/ AnalyzeAgain \/ AnalyzeAnother

SpecRerun == RerunInit /\ [][RerunNext]_vars

(***************************************************************************)
(* analyze() as one call, and the worker thread                            *)
(***************************************************************************)
\* SrumAnalyzer(srum_path, template_path, reg_hive_path).analyze()
AnalyzeCall(srum, tmpl, hv, reg_hive_path) ==
  LET Ended(r) == IF r.raised THEN Raised(r.exc, ExcMessage(r))
                  ELSE Returned(r.val, FinishedMessage)
      Process(s, ids) ==
        IF ids.raised THEN Ended(ids)
        ELSE Ended(ProcessSrumTables([s EXCEPT !.id_table = ids.val], srum.tables,
                                     SkipTables))
      IdMap(s) == Process(s, LoadSrumIdLookups(s, srum.tables))
  IN IF ~srum.openable THEN Raised("IOError", SrumFileErrorPrefix \o srum.error)
     ELSE IF ~tmpl.openable THEN Raised("IOError", TemplateFileErrorPrefix \o tmpl.error)
     ELSE IdMap(AnalyzeLoadSchema(AnalyzeLoadRegistry(NewAnalyzer(reg_hive_path), hv),
                                  tmpl.sheets))

\* the dict SrumAnalysisThread.run passes to finished.emit
SuccessPayload(data, message) == [status |-> "success", data |-> data, message |-> message]

ErrorPayload(message) == [status |-> "error", data |-> EmptyDict, message |-> message]

\* RunEmits without the except clause: nothing is emitted when analyze() raises
RunEmits_NoExcept(o) ==
  IF o.status = "returned" THEN <<SuccessPayload(o.data, o.message)>> ELSE <<>>

\* SrumAnalysisThread.run: the finished signals it emits, in order, for the
\* way analyze() ended
RunEmits(o) ==
  IF o.status = "returned" THEN <<SuccessPayload(o.data, o.message)>>
  ELSE <<ErrorPayload(o.message)>>

(***************************************************************************)
(* AnalysisPage: the SRUM button, the worker thread, the completion slot   *)
(***************************************************************************)
\* the most SRUM requests in a run of the model
MaxRequests == 2

\* the files the page runs on
PageWorlds ==
  { [srum |-> [openable |-> TRUE, error |-> <<>>, tables |-> db],
     template |-> [openable |-> TRUE, error |-> <<>>, sheets |-> <<SheetApps, SheetLookupNames>>]]
      : db \in {<<TableApp2, TableIdMapGood>>, <<TableNetBad>>, <<TableAppZero>>,
                <<TableAppBad, TableIdMapNoBlob>>} }
  \cup { [srum |-> [openable |-> FALSE, error |-> OpenError, tables |-> <<>>],
          template |-> [openable |-> TRUE, error |-> <<>>, sheets |-> <<SheetApps>>]],
         [srum |-> [openable |-> TRUE, error |-> <<>>, tables |-> <<TableApp2>>],
          template |-> [openable |-> FALSE, error |-> OpenError, sheets |-> <<>>]] }

\* no analyze() is stepped through
AnalyzeIdle ==
  /\ self = NewAnalyzer(NoneVal)
  /\ pc = "done"
  /\ ese_db = "none"
  /\ table_num = 0
  /\ all_tables_data = EmptyDict
  /\ outcome = Running
  /\ history = <<>>

\* AnalysisPage.__init__, on some files
PageInit ==
  /\ AnalyzeIdle
  /\ FormatIdle
  /\ DecodeIdle
  /\ \E w \in PageWorlds : srum_file = w.srum /\ template_file = w.template
  /\ hive = HiveGood
  /\ imports_available \in BOOLEAN
  /\ exists \in [srum : BOOLEAN, template : BOOLEAN, reg : BOOLEAN]
  /\ srum_analysis_thread = 0
  /\ threads = <<>>
  /\ signals = <<>>
  /\ callbacks = <<>>
  /\ view = "placeholder"
  /\ srum_tabs = {}
  /\ placeholder_text = ""
  /\ crashed = FALSE

\* a thread that was started and whose run() has not returned
IsRunning(i) == threads[i].state = "running"

\* StartedThreads without the test that the template file exists
StartedThreads_NoTemplateCheck ==
  IF imports_available /\ exists.srum
  THEN << [params |-> [srum_path |-> "SRUDB.dat", template_path |-> "SRUM_TEMPLATE2.XLSX",
                       reg_path |-> IF exists.reg THEN HivePath ELSE NoneVal],
           state |-> "running", emitted |-> <<>>] >>
  ELSE <<>>

\* start_srum_analysis: the thread it creates, <<>> when a check fails
StartedThreads ==
  IF imports_available /\ exists.srum /\ exists.template
  THEN << [params |-> [srum_path |-> "SRUDB.dat", template_path |-> "SRUM_TEMPLATE2.XLSX",
                       reg_path |-> IF exists.reg THEN HivePath ELSE NoneVal],
           state |-> "running", emitted |-> <<>>] >>
  ELSE <<>>

\* start_srum_analysis: the text it leaves in placeholder_label
StartPlaceholderText ==
  IF ~imports_available THEN "SRUM analysis requires additional libraries."
  ELSE IF ~exists.srum THEN "SRUDB.dat not found at the specified path."
  ELSE IF ~exists.template THEN "SRUM template not found"
  ELSE "Analyzing SRUM database... This may take a while."

\* on_artifact_button_click("SRUM"): show the placeholder, then
\* start_srum_analysis.  Rebinding srum_analysis_thread drops the only
\* reference the page holds to the previous thread object; when that thread
\* still runs, Qt may abort the process (QThread destroyed while running).
OnArtifactButtonClickSrum ==
  /\ ~crashed
  /\ Len(threads) < MaxRequests
  /\ view' = "placeholder"
  /\ placeholder_text' = StartPlaceholderText
  /\ threads' = threads \o StartedThreads
  /\ IF StartedThreads /= <<>>
     THEN /\ srum_analysis_thread' = Len(threads) + 1
          /\ crashed' \in (IF srum_analysis_thread /= 0 /\ IsRunning(srum_analysis_thread)
                           THEN BOOLEAN ELSE {FALSE})
     ELSE UNCHANGED <<srum_analysis_thread, crashed>>
  /\ UNCHANGED <<imports_available, exists, signals, callbacks, srum_tabs>>
  /\ UNCHANGED <<analyzeVars, history, fmtVars, decVars>>

\* on_artifact_button_click for a name no branch handles
OnArtifactButtonClickOther ==
  /\ ~crashed
  /\ view' = "placeholder"
  /\ placeholder_text' = "analysis not implemented yet."
  /\ UNCHANGED <<imports_available, exists, srum_analysis_thread, threads, signals, callbacks,
                 srum_tabs, crashed>>
  /\ UNCHANGED <<analyzeVars, history, fmtVars, decVars>>

\* SrumAnalysisThread.run of thread i: build the analyzer, call analyze(),
\* emit finished.  A thread the page no longer references is destroyed when
\* run() returns, which Qt may answer by aborting the process.
SrumAnalysisThreadRun(i) ==
  /\ ~crashed
  /\ IsRunning(i)
  /\ LET Emit(emits) ==
           /\ threads' = [threads EXCEPT ![i].state = "finished", ![i].emitted = @ \o emits]
           /\ signals' = signals \o [n \in 1..Len(emits) |->
                                       [thread |-> i, result |-> emits[n]]]
     IN Emit(RunEmits(AnalyzeCall(srum_file, template_file, hive,
                                  threads[i].params.reg_path)))
  /\ crashed' \in (IF i /= srum_analysis_thread THEN BOOLEAN ELSE {FALSE})
  /\ UNCHANGED <<imports_available, exists, srum_analysis_thread, callbacks, view, srum_tabs,
                 placeholder_text>>
  /\ UNCHANGED <<analyzeVars, history, fmtVars, decVars>>

\* display_srum_data: the tabs, one per table with at least one data row
DisplayedTabs(data) == {name \in DOMAIN data : Len(data[name]) >= 2}

\* on_srum_analysis_finished(result), for the oldest queued signal
OnSrumAnalysisFinished ==
  /\ ~crashed
  /\ signals /= <<>>
  /\ LET sig == Head(signals)
     IN /\ callbacks' = Append(callbacks, [thread |-> sig.thread, status |-> sig.result.status,
                                           current |-> srum_analysis_thread])
        /\ IF sig.result.status = "success"
           THEN /\ srum_tabs' = (IF DOMAIN sig.result.data = {} THEN {}
                                 ELSE DisplayedTabs(sig.result.data))
                /\ placeholder_text' = (IF DOMAIN sig.result.data = {}
                                        THEN "No data found in SRUM database."
                                        ELSE placeholder_text)
                /\ view' = "srum_tabs"
           ELSE /\ placeholder_text' = "SRUM Analysis Error"
                /\ view' = "placeholder"
                /\ UNCHANGED srum_tabs
  /\ signals' = Tail(signals)
  /\ UNCHANGED <<imports_available, exists, srum_analysis_thread, threads, crashed>>
  /\ UNCHANGED <<analyzeVars, history, fmtVars, decVars>>

PageNext ==
  \/ OnArtifactButtonClickSrum
  \/ OnArtifactButtonClickOther
  \/ \E i \in 1..Len(threads) : SrumAnalysisThreadRun(i)
  \/ OnSrumAnalysisFinished

SpecPage == PageInit /\ [][PageNext]_vars

(***************************************************************************)
(* The format run: one cell through _format_output_for_gui                 *)
(***************************************************************************)
NamesOldLookup == NamesLookup \o <<"-", "O", "l", "d">>

NamesNewLookup == NamesLookup \o <<"-", "N", "e", "w">>

SheetLookupNamesOld ==
  Sheet(LookupMarker \o NamesOldLookup,
        << <<S(<<"A", "B">>), S(<<"O", "l", "d">>)>>,
           <<S(<<"Z", "Z">>), S(<<"Z", "e", "d">>)>> >>)

LookupSheetPool == {SheetLookupNames, SheetLookupNamesOld, SheetLookupKnownSids}

\* the most lookup sheets in the workbook of a format run
MaxLookupSheets == 2

FormatWorkbooks ==
  {wb \in UNION {[1..n -> LookupSheetPool] : n \in 0..MaxLookupSheets} : DistinctNames(wb)}

FormatValues ==
  {S(<<"A", "B">>), S(<<"Z", "Z">>), S(SidText), PyInt(1), PyInt(7), PyBool(TRUE),
   PyInt(-1), PyInt(90061), S(<<"1", "0", "1">>), S(<<>>), PyFloat(<<0, 0, 128, 63>>),
   PyDatetime(<<0, 0, 0, 0, 0, 0, 240, 63>>)}

FormatDirectives ==
  {S(LookupMarker \o NamesLookup),
   S(<<"L", "o", "o", "k", "u", "p", "-">> \o NamesLookup),
   S(LookupMarker \o NamesOldLookup),
   S(LookupMarker \o NamesNewLookup),
   S(LookupMarker \o <<"M", "i", "s", "s", "i", "n", "g">>),
   S(LookupMarker \o KnownSidsName),
   S(<<"f", "i", "l", "e">>), S(<<"F", "I", "L", "E", ":", "%", "Y">>),
   S(<<"s", "e", "c", "o", "n", "d", "s">>), S(<<"B", "a", "s", "e", "1", "6">>),
   S(<<"b", "a", "s", "e", "2">>), S(<<"l", "o", "o", "k", "u", "p", "_", "l", "u", "i", "d">>),
   S(<<"l", "o", "o", "k", "u", "p", "_", "i", "d">>),
   S(<<"i", "n", "t", "e", "r", "f", "a", "c", "e", "_", "i", "d">>),
   S(<<"I", "n", "t", "e", "r", "f", "a", "c", "e", "_", "I", "D">>),
   NoneVal, PyInt(5), PyDatetime(<<0, 0, 0, 0, 0, 0, 240, 63>>)}

\* the analyzers of the format run: made without a registry hive, and made
\* with one and past the registry step of analyze()
FormatSelves ==
  {NewAnalyzer(NoneVal), AnalyzeLoadRegistry(NewAnalyzer(HivePath), HiveGood)}

FormatInit ==
  /\ AnalyzeIdle
  /\ PageIdle
  /\ DecodeIdle
  /\ srum_file = [openable |-> FALSE, error |-> OpenError, tables |-> <<>>]
  /\ template_file = [openable |-> FALSE, error |-> OpenError, sheets |-> <<>>]
  /\ hive = HiveGood
  /\ fmt_pc = "load"
  /\ fmt_wb \in FormatWorkbooks
  /\ fmt_self \in FormatSelves
  /\ fmt_val \in FormatValues
  /\ fmt_fmt \in FormatDirectives
  /\ fmt_result = Ret(NoneVal)

\* the schema load of analyze() on the workbook
FormatLoadSchema ==
  /\ fmt_pc = "load"
  /\ fmt_self' = AnalyzeLoadSchema(fmt_self, fmt_wb)
  /\ fmt_pc' = "format"
  /\ UNCHANGED <<fmt_wb, fmt_val, fmt_fmt, fmt_result>>
  /\ UNCHANGED <<analyzeVars, history, pageVars, decVars>>

\* _format_output_for_gui(val, cformat)
FormatCell ==
  /\ fmt_pc = "format"
  /\ fmt_result' = FormatOutputForGui(fmt_self, fmt_val, fmt_fmt)
  /\ fmt_pc' = "done"
  /\ UNCHANGED <<fmt_wb, fmt_self, fmt_val, fmt_fmt>>
  /\ UNCHANGED <<analyzeVars, history, pageVars, decVars>>

FormatNext == FormatLoadSchema \/ FormatCell

SpecFormat == FormatInit /\ [][FormatNext]_vars

(***************************************************************************)
(* The decoder run: one call of _smart_retrieve, of                        *)
(* _binary_sid_to_string_sid or of _blob_to_string                         *)
(***************************************************************************)
\* the hex string of a byte sequence
H(bs) == PyStr(HexEncode(bs))

\* the column types _smart_retrieve lists, and two it does not
DecodeTypes ==
  {"BINARY_DATA", "BOOLEAN", "DATE_TIME", "DOUBLE_64BIT", "FLOAT_32BIT", "GUID",
   "INTEGER_16BIT_SIGNED", "INTEGER_16BIT_UNSIGNED", "INTEGER_32BIT_SIGNED",
   "INTEGER_32BIT_UNSIGNED", "INTEGER_64BIT_SIGNED", "INTEGER_8BIT_UNSIGNED",
   "LARGE_BINARY_DATA", "LARGE_TEXT", "SUPER_LARGE_VALUE", "TEXT", "CURRENCY", "NULL"}

\* the raw values of a cell: None, and buffers of 0, 1, 2, 3, 4, 6, 8 and 16 bytes
DecodeData ==
  {NoneVal, B(<<>>), B(<<1>>), B(<<255, 127>>), B(<<1, 2, 3>>), B(<<0, 0, 128, 63>>),
   B(<<65, 0, 66, 0, 0, 0>>), B(<<5, 0, 0, 0, 0, 0, 0, 0>>), B(Guid16)}

\* a cell: its column type, its raw value, whether get_record gives its record
DecodeCells ==
  [type : DecodeTypes, data : DecodeData, present : {TRUE}]
  \cup {[type |-> "TEXT", data |-> B(<<65, 0>>), present |-> FALSE]}

\* the table of one record and one column that holds the cell
CellTable(cell) ==
  [name |-> AppName, columns |-> <<Column(<<"c">>, cell.type)>>, count_raises |-> FALSE,
   records |-> <<[readable |-> cell.present, decodable |-> cell.present,
                  data |-> <<cell.data>>]>>]

\* the arguments of _binary_sid_to_string_sid
DecodeSids ==
  {H(SidBytes),
   H(<<1, 0, 0, 0, 0, 0, 0, 5>>),
   H(<<1, 1, 0, 0, 0, 0, 1, 0, 0, 1, 0, 0>>),
   H(<<1, 1, 0, 0, 0, 0, 0, 5, 21, 0, 0, 0, 9, 9>>),
   H(<<2, 3, 0, 0, 0, 0, 0, 5, 1, 0, 0, 0, 2, 0, 0, 0, 3, 0, 0, 0>>),
   S(<<"0", "1", "0", "1", "0", "0", "0", "0", "0", "0", "0", "0", "0", "0", "0", "A",
       "F", "F", "0", "0", "0", "0", "0", "0">>),
   PyBytes(<<48, 49, 48, 48, 48, 48, 48, 48, 48, 48, 48, 48, 48, 48, 48, 53>>),
   S(EmptyStr), S(<<"z", "z">>), S(<<"a", "b", "c">>),
   H(<<1>>), H(<<1, 2, 0, 0>>), H(<<1, 0, 0, 0, 0, 0, 0>>),
   H(<<1, 3, 0, 0, 0, 0, 0, 5, 21, 0, 0, 0>>),
   H(<<1, 1, 0, 0, 0, 0, 0, 5, 21, 0>>),
   S(<<>>), PyBytes(<<>>), NoneVal, PyInt(0), PyInt(5)}

\* str.encode("utf-16-le") of a string of code points of the basic plane,
\* followed by the double null of a stored text
Utf16LEEncode(cps) ==
  [i \in 1..(2 * Len(cps)) |->
     IF i % 2 = 1 THEN cps[(i + 1) \div 2] % 256 ELSE cps[i \div 2] \div 256]

RoundTripBlob(cps) == B(Utf16LEEncode(cps) \o <<0, 0>>)

\* the strings of the round trip: up to MaxRoundTripLen code points out of
\* A, e-acute, newline, NUL, the euro sign and U+4100
MaxRoundTripLen == 2

RoundTripAlphabet == {65, 233, 10, 0, 8364, 16640}

RoundTripStrings == UNION {[1..n -> RoundTripAlphabet] : n \in 0..MaxRoundTripLen}

\* the arguments of _blob_to_string
DecodeBlobs ==
  {RoundTripBlob(s) : s \in RoundTripStrings} \cup
  {H(<<65, 0, 66, 0, 0, 0>>), H(<<0, 65, 0, 66, 0, 0>>), H(<<67, 0>>), H(<<>>),
   S(EmptyStr), S(<<"a", "b", "c">>), H(<<65, 0, 0, 0, 10>>),
   B(<<65, 0, 66, 0, 0, 0>>), B(<<0, 65, 0, 66, 0, 0>>), B(<<0, 67, 233, 0, 0>>), B(<<>>),
   B(<<65, 0, 0, 0, 10>>), B(<<0, 65, 0, 0, 10>>), B(<<65, 0, 10, 0, 0, 0, 10>>),
   NoneVal, PyInt(5), PyBool(TRUE), PyFloat(<<0, 0, 128, 63>>)}

\* the analyzers of the decoder run: without and with Known SIDS
DecodeSelves ==
  {NewAnalyzer(NoneVal),
   [NewAnalyzer(NoneVal) EXCEPT
      !.template_lookups =
        DictSet(EmptyDict, PyStr(KnownSidsName),
                DictSet(EmptyDict, PyStr(SidText), PyStr(<<"b", "o", "b">>)))]}

DecodeInit ==
  /\ AnalyzeIdle
  /\ PageIdle
  /\ FormatIdle
  /\ srum_file = [openable |-> FALSE, error |-> OpenError, tables |-> <<>>]
  /\ template_file = [openable |-> FALSE, error |-> OpenError, sheets |-> <<>>]
  /\ hive = HiveGood
  /\ dec_pc = "call"
  /\ \/ dec_fn = "_smart_retrieve" /\ dec_arg \in DecodeCells
        /\ dec_self = NewAnalyzer(NoneVal)
     \/ dec_fn = "_binary_sid_to_string_sid" /\ dec_arg \in DecodeSids
        /\ dec_self \in DecodeSelves
     \/ dec_fn = "_blob_to_string" /\ dec_arg \in DecodeBlobs
        /\ dec_self = NewAnalyzer(NoneVal)
  /\ dec_result = Ret(NoneVal)

\* _smart_retrieve(ese_table, 0, 0) on the table that holds the cell
DecodeCell ==
  /\ dec_pc = "call"
  /\ dec_fn = "_smart_retrieve"
  /\ dec_result' = SmartRetrieve(CellTable(dec_arg), 0, 0)
  /\ dec_pc' = "done"
  /\ UNCHANGED <<dec_fn, dec_self, dec_arg>>
  /\ UNCHANGED <<analyzeVars, history, pageVars, fmtVars>>

\* _binary_sid_to_string_sid(sid_hex)
DecodeSid ==
  /\ dec_pc = "call"
  /\ dec_fn = "_binary_sid_to_string_sid"
  /\ dec_result' = Ret(BinarySidToStringSid(dec_self, dec_arg))
  /\ dec_pc' = "done"
  /\ UNCHANGED <<dec_fn, dec_self, dec_arg>>
  /\ UNCHANGED <<analyzeVars, history, pageVars, fmtVars>>

\* _blob_to_string(blob)
DecodeBlob ==
  /\ dec_pc = "call"
  /\ dec_fn = "_blob_to_string"
  /\ dec_result' = Ret(BlobToString(dec_arg))
  /\ dec_pc' = "done"
  /\ UNCHANGED <<dec_fn, dec_self, dec_arg>>
  /\ UNCHANGED <<analyzeVars, history, pageVars, fmtVars>>

DecodeNext == DecodeCell \/ DecodeSid \/ DecodeBlob

SpecDecode == DecodeInit /\ [][DecodeNext]_vars

(***************************************************************************)
(* Properties                                                              *)
(***************************************************************************)
\* the tables of the database analyze() runs on
Tables == srum_file.tables

TableIds == 1..Len(Tables)

\* the stepped analyze() and the single call end the same way
StepsAgreeWithCall ==
  pc = "done" => outcome = AnalyzeCall(srum_file, template_file, hive, self.reg_hive_path)

\* C1 (as stated): whatever the database and the template contain, none of
\* the fixed system-table names is a key of the mapping analyze() returns.
C1_NoSystemTableKey ==
  outcome.status = "returned" =>
    \A n \in SkipTables : ~DictHas(outcome.data, PyStr(n))

\* C1 (amended): no table whose internal name is on the skip list puts an
\* entry in the returned mapping: every key is the display name of a table
\* whose internal name is not on the list, so a system-table name is a key
\* only when the template gives it as the display name of such a table.
C1_KeysComeFromNonSystemTables ==
  outcome.status = "returned" =>
    \A key \in DOMAIN outcome.data :
      \E i \in TableIds :
        /\ Tables[i].name \notin SkipTables
        /\ EseTableGuidToName(self, Tables[i]) = key

\* C1 witness: a database holding MSysObjects with a record was analysed and
\* the result has the key MSysObjects, the sheet name of another table
C1_Witness ==
  /\ outcome.status = "returned"
  /\ \E i \in TableIds : Tables[i].name = MSysObjects /\ EseTableRecordCount(Tables[i]) > 0
  /\ DictHas(outcome.data, PyStr(MSysObjects))

\* C2: whenever analyze() has opened the database handle and then returns
\* or raises, the handle has been closed.
C2_DatabaseClosedOnExit ==
  (pc = "done" /\ ese_db /= "none") => ese_db = "closed"

\* the exceptions the cell decoder and its helpers raise
DecodeErrors == {"struct.error", "TypeError", "ValueError", "UnicodeDecodeError", "binascii.Error"}

\* C3: a truncated or malformed byte buffer in a cell never raises out of
\* analyze(): analyze() does not end with an exception of the cell decoder.
C3_FailSoftPerCell ==
  (pc = "done" /\ outcome.status = "raised") => outcome.exc \notin DecodeErrors

\* C4: failing to open the database, or the workbook, is fatal: analyze()
\* raises an I/O error whose message names the file, no schema is loaded and
\* no table is processed; when the workbook fails after the database opened,
\* the database handle is closed before the error is raised.
C4_OpenFailuresAreFatal ==
  LET nothingDone ==
        /\ self.template_tables = EmptyDict
        /\ self.template_lookups = EmptyDict
        /\ self.id_table = EmptyDict
        /\ all_tables_data = EmptyDict
        /\ table_num = 0
  IN /\ (pc = "done" /\ ~srum_file.openable) =>
          /\ outcome = Raised("IOError", SrumFileErrorPrefix \o srum_file.error)
          /\ ese_db = "none"
          /\ nothingDone
     /\ (pc = "done" /\ srum_file.openable /\ ~template_file.openable) =>
          /\ outcome = Raised("IOError", TemplateFileErrorPrefix \o template_file.error)
          /\ ese_db = "closed"
          /\ nothingDone

\* C4 witness: the workbook failed to open after the database had opened
C4_Witness ==
  /\ pc = "done"
  /\ srum_file.openable /\ Len(Tables) > 0
  /\ ~template_file.openable
  /\ outcome.status = "raised"

\* C5 (as stated): no key of the returned mapping is the display name of a
\* table whose record count is zero.
C5_NoZeroRecordTableKey ==
  outcome.status = "returned" =>
    \A i \in TableIds :
      EseTableRecordCount(Tables[i]) = 0 =>
        ~DictHas(outcome.data, EseTableGuidToName(self, Tables[i]))

\* C5 (amended): a table whose record count is zero puts no entry in the
\* returned mapping: every key is the display name of a table with at least
\* one record, so the display name of a zero-record table is a key only
\* when a table with records resolves to the same display name.
C5_KeysComeFromTablesWithRecords ==
  outcome.status = "returned" =>
    \A key \in DOMAIN outcome.data :
      \E i \in TableIds :
        /\ EseTableRecordCount(Tables[i]) > 0
        /\ EseTableGuidToName(self, Tables[i]) = key

\* C5 witness: a database with a zero-record table and a table with records
\* was analysed and the result is not empty
C5_Witness ==
  /\ outcome.status = "returned"
  /\ \E i \in TableIds :
       /\ Tables[i].name \notin SkipTables
       /\ EseTableRecordCount(Tables[i]) = 0
       /\ ~DictHas(outcome.data, EseTableGuidToName(self, Tables[i]))
  /\ DOMAIN outcome.data /= {}

\* what the registry loaders give for the analyzer's hive path
BuiltInterfaceTable == IF Truthy(self.reg_hive_path) THEN LoadInterfaces(hive) ELSE EmptyDict

BuiltRegSids == IF Truthy(self.reg_hive_path) THEN LoadRegistrySids(hive) ELSE EmptyDict

\* C6: the ID Table, the Interface Table and the Known-SIDs table are fully
\* built before the first data table is processed: while tables are being
\* processed, and after, each holds what its loader gives for the inputs.
C6_LookupsBuiltBeforeProcessing ==
  (pc = "process" \/ DOMAIN all_tables_data /= {} \/ outcome.status = "returned") =>
    /\ self.interface_table = BuiltInterfaceTable
    /\ self.regsids = BuiltRegSids
    /\ self.template_lookups = MergeKnownSids(LoadTemplateLookups(template_file.sheets),
                                              BuiltRegSids)
    /\ self.id_table = LoadSrumIdLookups(self, Tables).val
    /\ ~LoadSrumIdLookups(self, Tables).raised

\* C6 witness: a table has been processed with all three tables non-empty
C6_Witness ==
  /\ pc = "process"
  /\ DOMAIN all_tables_data /= {}
  /\ DOMAIN self.id_table /= {}
  /\ DOMAIN self.interface_table /= {}
  /\ DOMAIN self.regsids /= {}

\* every record of t can be retrieved
AllRetrievable(t) == \A n \in 1..Len(t.records) : t.records[n].readable

\* C7: every table of the result is a sequence of rows whose row 0 is the
\* header and whose later rows have as many entries as the header, one per
\* database column, each a string; a processed table with n records, all
\* retrievable, has n + 1 rows.
C7_RowsMatchHeader ==
  outcome.status = "returned" =>
    \A key \in DOMAIN outcome.data :
      LET rows == outcome.data[key]
      IN /\ Len(rows) >= 1
         /\ \A r \in 2..Len(rows) :
              /\ Len(rows[r]) = Len(rows[1])
              /\ \A c \in 1..Len(rows[r]) : IsStr(rows[r][c])
         /\ \E i \in TableIds :
              /\ Tables[i].name \notin SkipTables
              /\ EseTableGuidToName(self, Tables[i]) = key
              /\ Len(rows[1]) = Len(Tables[i].columns)
              /\ AllRetrievable(Tables[i]) =>
                   Len(rows) = EseTableRecordCount(Tables[i]) + 1

\* C7 witness: a table of 2 records and 3 columns gave 3 rows of 3 entries
C7_Witness ==
  /\ outcome.status = "returned"
  /\ \E i \in TableIds :
       /\ Len(Tables[i].records) = 2 /\ Len(Tables[i].columns) = 3
       /\ AllRetrievable(Tables[i])
       /\ DictHas(outcome.data, EseTableGuidToName(self, Tables[i]))
       /\ LET rows == outcome.data[EseTableGuidToName(self, Tables[i])]
          IN Len(rows) = 3 /\ \A r \in 1..3 : Len(rows[r]) = 3

\* C8: each run of the worker thread ends with exactly one completion
\* signal: the success payload with the table-of-tables and the message when
\* analyze() returns, the failure payload with the error message when it
\* raises; a thread still running has emitted none.
C8_ExactlyOneCompletionSignal ==
  \A i \in 1..Len(threads) :
    LET o == AnalyzeCall(srum_file, template_file, hive, threads[i].params.reg_path)
        emitted == threads[i].emitted
    IN /\ IsRunning(i) => emitted = <<>>
       /\ ~IsRunning(i) =>
            /\ Len(emitted) = 1
            /\ o.status = "returned" =>
                 /\ emitted[1].status = "success"
                 /\ emitted[1].data = o.data
                 /\ emitted[1].message = o.message
            /\ o.status = "raised" =>
                 /\ emitted[1].status = "error"
                 /\ emitted[1].message = o.message

\* C8 witness: a run whose analyze() raised has ended, with its signal queued
C8_Witness ==
  \E i \in 1..Len(threads) :
    /\ ~IsRunning(i)
    /\ threads[i].emitted /= <<>>
    /\ threads[i].emitted[1].status = "error"
    /\ \E n \in 1..Len(signals) : signals[n].thread = i

\* C9: for any sequence of SRUM requests at most one analysis thread is
\* running at any time, and no completion callback is delivered for a run
\* that a newer one has superseded.
C9_NoConcurrentAnalysis ==
  /\ Cardinality({i \in 1..Len(threads) : IsRunning(i)}) <= 1
  /\ \A n \in 1..Len(callbacks) : callbacks[n].thread = callbacks[n].current

\* the sheets that hold the lookup table called name: the lookup sheets
\* whose name is name after the marker
NamedLookupSheets(wb, name) ==
  {i \in 1..Len(wb) : IsLookupSheet(wb[i].name) /\ DropChars(wb[i].name, Len(LookupMarker)) = name}

\* C10: a cell with directive lookup-<name> renders as the looked-up value
\* when its raw value is a key of the lookup table called <name>, and as the
\* raw value when it is not a key or no lookup table has that name.
C10_LookupDirective ==
  (fmt_pc = "done" /\ fmt_fmt.k = "str" /\ StartsWith(Lower(fmt_fmt.v), LookupMarker)) =>
    LET name == DropChars(fmt_fmt.v, Len(LookupMarker))
        named == NamedLookupSheets(fmt_wb, name)
        last == CHOOSE i \in named : \A j \in named : j <= i
        table == IF named = {} THEN EmptyDict ELSE LookupRows(fmt_wb[last], 1, EmptyDict)
    IN fmt_result = Ret(Str(DictGet(table, fmt_val, fmt_val)))

\* table i of the database is processed: not on the skip list, with records
Processed(i) ==
  Tables[i].name \notin SkipTables /\ EseTableRecordCount(Tables[i]) > 0

\* table i is the last processed table stored under its key
StoredLast(i) ==
  /\ Processed(i)
  /\ \A j \in TableIds :
       j > i /\ Processed(j) =>
         EseTableGuidToName(self, Tables[j]) /= EseTableGuidToName(self, Tables[i])

\* the record numbers, from 0, of the records the record loop gets, in order
ReadableRows(t) ==
  LET Nums == [n \in 1..Len(t.records) |-> n - 1]
      Got(n) == t.records[n + 1].readable
  IN SelectSeq(Nums, Got)

\* the column named name of table t has a template entry
HasEntry(t, name) ==
  /\ DictHas(self.template_tables, PyStr(t.name))
  /\ DictHas(self.template_tables[PyStr(t.name)][2], PyStr(name))

\* the template entry (style, directive, label) of that column
EntryOf(t, name) == self.template_tables[PyStr(t.name)][2][PyStr(name)]

\* the claim of C11 about table i: its key, its header row and its cells;
\* with placeholder, a cell whose decoded value is the error sentinel is
\* expected to show the warning placeholder
C11Table(i, placeholder) ==
  LET t == Tables[i]
      key == IF DictHas(self.template_tables, PyStr(t.name))
             THEN self.template_tables[PyStr(t.name)][1]
             ELSE PyStr(t.name)
      Expected(name, d) ==
        IF placeholder /\ StrEq(d, ErrorStr) THEN PyStr(WarningPrefix \o name)
        ELSE IF HasEntry(t, name) THEN FormatOutputForGui(self, d, EntryOf(t, name)[2]).val
        ELSE Str(d)
  IN /\ DictHas(outcome.data, key)
     /\ StoredLast(i) =>
          LET rows == outcome.data[key]
          IN /\ Len(rows) = Len(ReadableRows(t)) + 1
             /\ Len(rows[1]) = Len(t.columns)
             /\ \A c \in 1..Len(t.columns) :
                  rows[1][c] = IF HasEntry(t, t.columns[c].name)
                               THEN EntryOf(t, t.columns[c].name)[3]
                               ELSE PyStr(t.columns[c].name)
             /\ \A r \in 1..Len(ReadableRows(t)) :
                  \A c \in 1..Len(t.columns) :
                    rows[r + 1][c] =
                      Expected(t.columns[c].name,
                               SmartRetrieve(t, ReadableRows(t)[r], c - 1).val)

\* C11 (as stated): every processed table is keyed by its schema display
\* name when it is templated and by its internal name otherwise; its header
\* row holds, per database column, the display label of the column's
\* template entry, or the raw column name; every cell is formatted by its
\* directive when its column has a template entry and is the plain
\* stringification of the decoded value otherwise.
C11_KeyHeaderCells ==
  outcome.status = "returned" =>
    \A i \in TableIds : Processed(i) => C11Table(i, FALSE)

\* C11 (amended): key and header as stated; a cell whose decoded value is
\* the error sentinel shows the warning placeholder whether or not its
\* column has a template entry; every other cell is formatted by its
\* directive when its column has a template entry and is the plain
\* stringification of the decoded value otherwise.
C11_KeyHeaderCellsButPlaceholder ==
  outcome.status = "returned" =>
    \A i \in TableIds : Processed(i) => C11Table(i, TRUE)

\* C11 witness: a returned table with a templated and an untemplated
\* column, shown under its display name with one mapped label and one raw
\* column name in the header
C11_Witness ==
  /\ outcome.status = "returned"
  /\ \E i \in TableIds :
       /\ StoredLast(i)
       /\ EseTableGuidToName(self, Tables[i]) /= PyStr(Tables[i].name)
       /\ \E c1, c2 \in 1..Len(Tables[i].columns) :
            /\ HasEntry(Tables[i], Tables[i].columns[c1].name)
            /\ ~HasEntry(Tables[i], Tables[i].columns[c2].name)
            /\ Truthy(EntryOf(Tables[i], Tables[i].columns[c1].name)[2])
       /\ Len(outcome.data[EseTableGuidToName(self, Tables[i])]) >= 2

\* the analyzer a new SrumAnalyzer would be after the loaders of analyze()
\* on the files of this run
FreshAnalyzer ==
  LET WithIds(s, ids) == [s EXCEPT !.id_table = ids.val]
      Loaded(s) == WithIds(s, LoadSrumIdLookups(s, srum_file.tables))
  IN Loaded(AnalyzeLoadSchema(AnalyzeLoadRegistry(NewAnalyzer(self.reg_hive_path), hive),
                              template_file.sheets))

\* C12: no state persists across runs: in every run, the first or a later
\* one, on an analyzer used before or on a new one, the template tables,
\* the template lookups, the ID table, the interface table and the registry
\* SIDs the table loop works with are those built from this run's input
\* files, and the run ends as analyze() of a new analyzer on these files.
C12_NoStateAcrossRuns ==
  /\ pc = "process" => self = FreshAnalyzer
  /\ pc = "done" =>
       outcome = AnalyzeCall(srum_file, template_file, hive, self.reg_hive_path)

\* C12 witness: the second run of an analyzer that held template tables, an
\* ID table and registry SIDs from its first run returned another result
C12_Witness ==
  /\ Len(history) = 1
  /\ history[1].status = "returned"
  /\ pc = "done"
  /\ outcome.status = "returned"
  /\ outcome.data /= history[1].data
  /\ DOMAIN outcome.data /= {}
  /\ self.reg_hive_path = HivePath
  /\ self.template_tables = EmptyDict
  /\ self.id_table = EmptyDict
  /\ self.regsids = EmptyDict
  /\ DOMAIN history[1].data /= {}

\* the directive of the format run, lower-cased
FmtLower == IF fmt_fmt.k = "str" THEN Lower(fmt_fmt.v) ELSE <<>>

\* the format run applied a directive that is, or starts with, lit
FmtIs(lit) == fmt_pc = "done" /\ FmtLower = lit

FmtStarts(lit) == fmt_pc = "done" /\ StartsWith(FmtLower, lit)

BinaryDigits(s) == s /= <<>> /\ \A i \in 1..Len(s) : s[i] \in {"0", "1"}

\* the claim of C13 on the format run: what the run gave when its value
\* cannot go through its directive; on_file is what the file directive is
\* expected to give for a value that is not a number
C13Run(on_file) ==
  /\ fmt_pc = "done" /\ fmt_fmt.k = "str" => ~fmt_result.raised
  /\ fmt_pc = "done" /\ fmt_fmt.k = "str"
       /\ FormatDirective(fmt_self, fmt_val, fmt_fmt.v).raised =>
       fmt_result = Ret(Str(fmt_val))
  /\ FmtStarts(<<"f", "i", "l", "e">>) /\ fmt_val.k \notin {"int", "bool", "float"} =>
       fmt_result = Ret(on_file)
  /\ FmtIs(<<"s", "e", "c", "o", "n", "d", "s">>)
       /\ (fmt_val.k = "datetime" \/ (fmt_val.k = "str" /\ fmt_val.v /= <<>>)) =>
       fmt_result = Ret(Str(fmt_val))
  /\ FmtIs(<<"b", "a", "s", "e", "1", "6">>) /\ fmt_val.k \in {"str", "float"} =>
       fmt_result = Ret(Str(fmt_val))
  /\ FmtIs(<<"b", "a", "s", "e", "2">>)
       /\ (fmt_val.k \in {"float", "datetime"}
           \/ (fmt_val.k = "str" /\ ~BinaryDigits(fmt_val.v))) =>
       fmt_result = Ret(Str(fmt_val))
  /\ FmtIs(<<"l", "o", "o", "k", "u", "p", "_", "l", "u", "i", "d">>)
       /\ (fmt_val.k \in {"str", "float", "datetime"}
           \/ (fmt_val.k = "int" /\ fmt_val.v < 0)) =>
       fmt_result = Ret(Str(fmt_val))

DecodedCell == dec_pc = "done" /\ dec_fn = "_smart_retrieve" /\ dec_arg.present

\* the buffer lengths struct.unpack and uuid.UUID take for a column type, the
\* empty set for a type decoded without either
LengthsOf(type) ==
  CASE type \in {"BOOLEAN", "INTEGER_8BIT_UNSIGNED"} -> {1}
    [] type \in {"INTEGER_16BIT_SIGNED", "INTEGER_16BIT_UNSIGNED"} -> {2}
    [] type \in {"INTEGER_32BIT_SIGNED", "INTEGER_32BIT_UNSIGNED", "FLOAT_32BIT"} -> {4}
    [] type \in {"INTEGER_64BIT_SIGNED", "DOUBLE_64BIT"} -> {8}
    [] type = "GUID" -> {16}
    [] OTHER -> {}

\* C14: the Binary Cell Decoder always produces a value and never raises:
\* an absent raw value gives Empty; a buffer of the wrong length for an
\* integer, a float, a boolean or a GUID gives the Blob/Text Normalizer's
\* output, and so does a buffer under an unlisted type tag.
C14_DecoderNeverRaises ==
  /\ dec_pc = "done" /\ dec_fn = "_smart_retrieve" => ~dec_result.raised
  /\ DecodedCell /\ dec_arg.data.k = "none" => dec_result = Ret(PyStr(EmptyStr))
  /\ DecodedCell /\ dec_arg.data.k = "bytes" /\ LengthsOf(dec_arg.type) /= {}
       /\ Len(dec_arg.data.v) \notin LengthsOf(dec_arg.type) =>
       dec_result = Ret(BlobToString(dec_arg.data))
  /\ DecodedCell /\ dec_arg.data.k = "bytes" /\ dec_arg.type \in {"CURRENCY", "NULL"} =>
       dec_result = Ret(BlobToString(dec_arg.data))

\* the database has no SruDbIdMapTable, or one that lacks a column the
\* ID-Map Resolver reads
IdMapBroken ==
  \/ TableIndexByName(Tables, SruDbIdMapTable) = 0
  \/ \E name \in {IdBlob, IdType, IdIndex} :
       ColumnLookup(Tables[TableIndexByName(Tables, SruDbIdMapTable)], name) < 0

\* C15: when SruDbIdMapTable is absent or lacks its IdBlob, IdType or
\* IdIndex column, the ID-Map Resolver returns an empty map without raising
\* and analyze() continues: the table loop is entered with an empty ID
\* table, and analyze() does not end with the resolver's KeyError.
C15_IdMapFailSoft ==
  IdMapBroken =>
    /\ pc = "process" => self.id_table = EmptyDict
    /\ outcome.status = "raised" => outcome.exc /= "KeyError"

\* the cells of the processed table i whose decode gave the error sentinel:
\* <<r, c>>, r the row of the result, c the column, both from 1
SentinelCells(i) ==
  {rc \in (1..Len(ReadableRows(Tables[i]))) \X (1..Len(Tables[i].columns)) :
     StrEq(SmartRetrieve(Tables[i], ReadableRows(Tables[i])[rc[1]], rc[2] - 1).val, ErrorStr)}

\* C16: when the decode of a cell signals the error sentinel, the cell
\* shows WARNING: Invalid Column Name <column name>, and its table is in
\* the result with a row for every record the record loop got and a cell
\* for every column in each of them.
C16_PlaceholderKeepsTable ==
  outcome.status = "returned" =>
    \A i \in TableIds :
      StoredLast(i) =>
        LET rows == outcome.data[EseTableGuidToName(self, Tables[i])]
        IN /\ Len(rows) = Len(ReadableRows(Tables[i])) + 1
           /\ \A r \in 1..Len(rows) : Len(rows[r]) = Len(Tables[i].columns)
           /\ \A rc \in SentinelCells(i) :
                rows[rc[1] + 1][rc[2]]
                  = PyStr(WarningPrefix \o Tables[i].columns[rc[2]].name)

\* C16 witness: a returned table with a record the decoder could not get
\* again: its row shows the placeholder, the rows of the other records are
\* there, and one of them has no placeholder
C16_Witness ==
  /\ outcome.status = "returned"
  /\ \E i \in TableIds :
       /\ StoredLast(i)
       /\ \E n \in 1..Len(Tables[i].records) :
            Tables[i].records[n].readable /\ ~Tables[i].records[n].decodable
       /\ SentinelCells(i) /= {}
       /\ LET rows == outcome.data[EseTableGuidToName(self, Tables[i])]
          IN /\ Len(rows) = 4
             /\ \E r \in 2..Len(rows) :
                  \A c \in 1..Len(rows[r]) :
                    ~StartsWith(rows[r][c].v, WarningPrefix)

\* column c of table t has a template entry whose directive is lookup_id
IsLookupIdColumn(t, c) ==
  /\ HasEntry(t, t.columns[c].name)
  /\ EntryOf(t, t.columns[c].name)[2].k = "str"
  /\ Lower(EntryOf(t, t.columns[c].name)[2].v) = <<"l", "o", "o", "k", "u", "p", "_", "i", "d">>

UnknownId(val) ==
  PyStr(<<"U", "n", "k", "n", "o", "w", "n", " ", "I", "D", " ", "(">> \o StrChars(val) \o <<")">>)

\* the cells of the processed table i under a lookup_id directive, with
\* their decoded value, the error sentinel left out: <<r, c, val>>
LookupIdCells(i) ==
  {<<rc[1], rc[2], SmartRetrieve(Tables[i], ReadableRows(Tables[i])[rc[1]], rc[2] - 1).val>> :
     rc \in {x \in (1..Len(ReadableRows(Tables[i]))) \X (1..Len(Tables[i].columns)) :
               /\ IsLookupIdColumn(Tables[i], x[2])
               /\ x \notin SentinelCells(i)}}

\* C17: a cell under lookup_id shows the ID Table's value for its raw value
\* when the raw value is a key of the ID Table and Unknown ID (<value>)
\* otherwise; with no SruDbIdMapTable in the database the ID Table is empty
\* and every such cell shows Unknown ID (<value>).
C17_LookupId ==
  outcome.status = "returned" =>
    /\ TableIndexByName(Tables, SruDbIdMapTable) = 0 => self.id_table = EmptyDict
    /\ \A i \in TableIds :
         StoredLast(i) =>
           \A cell \in LookupIdCells(i) :
             outcome.data[EseTableGuidToName(self, Tables[i])][cell[1] + 1][cell[2]]
               = IF PyKey(cell[3]) \in DOMAIN self.id_table
                 THEN Str(self.id_table[PyKey(cell[3])])
                 ELSE UnknownId(cell[3])

\* C17 witness: a result in which one lookup_id cell shows a value of the
\* ID Table and another, its raw value not being a key, shows Unknown ID
C17_Witness ==
  /\ outcome.status = "returned"
  /\ \E i \in TableIds :
       /\ StoredLast(i)
       /\ \E hit, miss \in LookupIdCells(i) :
            /\ PyKey(hit[3]) \in DOMAIN self.id_table
            /\ PyKey(miss[3]) \notin DOMAIN self.id_table
            /\ outcome.data[EseTableGuidToName(self, Tables[i])][miss[1] + 1][miss[2]]
                 = UnknownId(miss[3])

\* the decoder run called _binary_sid_to_string_sid
DecodedSid == dec_pc = "done" /\ dec_fn = "_binary_sid_to_string_sid"

\* the bytes a hex string (a str, or bytes of hex digits) stands for, <<>>
\* when the value is not one
BytesOfHex(x) ==
  LET digits == IF x.k = "str" THEN x.v
                ELSE IF x.k = "bytes" THEN CodePointsToChars(x.v)
                ELSE <<"?">>
  IN IF HexDecode(digits).raised THEN <<>> ELSE HexDecode(digits).val.v

\* the bytes hold the 8-byte header and the sub-authorities the header counts
WellFormedSid(bs) == Len(bs) >= 8 /\ Len(bs) >= 8 + 4 * bs[2]

\* S-r-a-s1-...-sn of a well-formed binary SID
SidString(bs) ==
  LET a == ((((bs[3] * 256 + bs[4]) * 256 + bs[5]) * 256 + bs[6]) * 256 + bs[7]) * 256 + bs[8]
      sub(k) == bs[5 + 4 * k] + 256 * bs[6 + 4 * k] + 65536 * bs[7 + 4 * k]
                + 16777216 * bs[8 + 4 * k]
      subs[k \in 0..bs[2]] ==
        IF k = 0 THEN <<>> ELSE subs[k - 1] \o <<"-">> \o NatToChars(sub(k))
  IN <<"S", "-">> \o NatToChars(bs[1]) \o <<"-">> \o NatToChars(a) \o subs[bs[2]]

\* the Known SIDS lookup of the analyzer of the decoder run
KnownSids == DictGet(dec_self.template_lookups, PyStr(KnownSidsName), EmptyDict)

\* C18: Binary SID decoding of a hex string that holds revision r, count n,
\* the big-endian 48-bit authority a and n little-endian 4-byte
\* sub-authorities gives S-r-a-s1-...-sn, followed by the username Known
\* SIDS has for it in parentheses, or by (unknown); revision 1, count 2,
\* authority 5 and the sub-authorities 21 and 1000 give S-1-5-21-1000.
C18_SidString ==
  /\ DecodedSid /\ WellFormedSid(BytesOfHex(dec_arg)) =>
       dec_result =
         Ret(PyStr(SidString(BytesOfHex(dec_arg)) \o <<" ", "(">>
                   \o (IF PyStr(SidString(BytesOfHex(dec_arg))) \in DOMAIN KnownSids
                       THEN StrChars(KnownSids[PyStr(SidString(BytesOfHex(dec_arg)))])
                       ELSE <<"u", "n", "k", "n", "o", "w", "n">>)
                   \o <<")">>))
  /\ DecodedSid /\ dec_arg = H(<<1, 2, 0, 0, 0, 0, 0, 5, 21, 0, 0, 0, 232, 3, 0, 0>>) =>
       StartsWith(dec_result.val.v, SidText \o <<" ", "(">>)

\* C18 witness: the binary SID of S-1-5-21-1000 was decoded by an analyzer
\* whose Known SIDS names it bob
C18_Witness ==
  /\ DecodedSid
  /\ dec_arg = H(SidBytes)
  /\ dec_result = Ret(PyStr(SidText \o <<" ", "(", "b", "o", "b", ")">>))

\* C19 (as stated): every parse failure in Binary SID decoding gives
\* Invalid SID and nothing is raised: an input that is not valid hex, one
\* shorter than the 8-byte header, one whose count exceeds the
\* sub-authorities present.
C19_InvalidSid ==
  DecodedSid =>
    /\ ~dec_result.raised
    /\ ~WellFormedSid(BytesOfHex(dec_arg)) => dec_result = Ret(PyStr(InvalidSidStr))

\* C19 (amended): as stated for every input that is not empty; an empty
\* input (an empty string, empty bytes, None, 0) gives the empty string.
C19_InvalidSidUnlessEmpty ==
  DecodedSid =>
    /\ ~dec_result.raised
    /\ Truthy(dec_arg) /\ ~WellFormedSid(BytesOfHex(dec_arg)) =>
         dec_result = Ret(PyStr(InvalidSidStr))
    /\ ~Truthy(dec_arg) => dec_result = Ret(PyStr(<<>>))

\* C19 witness: a SID whose header counts three sub-authorities and that
\* holds one was decoded as Invalid SID
C19_Witness ==
  /\ DecodedSid
  /\ dec_arg = H(<<1, 3, 0, 0, 0, 0, 0, 5, 21, 0, 0, 0>>)
  /\ dec_result = Ret(PyStr(InvalidSidStr))

\* the decoder run called _blob_to_string
DecodedBlob == dec_pc = "done" /\ dec_fn = "_blob_to_string"

\* bytes one of the UTF-16 patterns accepts and the UTF-16 decoder refuses:
\* an odd number of them, the last a newline
Utf16Refused(bs) == (MatchUtf16LE(bs) \/ MatchUtf16BE(bs)) /\ Len(bs) % 2 = 1

\* the try block of _blob_to_string raises on x: a string that is not hex,
\* bytes (given, or hex-decoded) the UTF-16 decoder refuses, a value that is
\* neither a string nor bytes
BlobFails(x) ==
  CASE x.k = "str" -> (HexDecode(x.v).raised \/ Utf16Refused(BytesOfHex(x)))
    [] x.k = "bytes" -> Utf16Refused(x.v)
    [] OTHER -> TRUE

\* C20: the Blob/Text Normalizer never throws: for a hex string, a string
\* that is not hex, bytes, or a value that is neither, it returns a string;
\* when its decoding fails it returns the hex encoding of the input when
\* the input is bytes and the stringified input otherwise.
C20_NormalizerNeverThrows ==
  DecodedBlob =>
    /\ ~dec_result.raised
    /\ IsStr(dec_result.val)
    /\ BlobFails(dec_arg) =>
         dec_result.val = IF dec_arg.k = "bytes" THEN PyStr(HexEncode(dec_arg.v))
                          ELSE Str(dec_arg)

\* C20 witness: bytes that look like UTF-16LE and are one byte too long
\* came back as their hex encoding
C20_Witness ==
  /\ DecodedBlob
  /\ dec_arg = B(<<65, 0, 0, 0, 10>>)
  /\ dec_result.val = PyStr(<<"4", "1", "0", "0", "0", "0", "0", "0", "0", "a">>)

\* the decoder run normalized the UTF-16LE encoding of the string s
RoundTripped(s) == DecodedBlob /\ dec_arg = RoundTripBlob(s)

\* C21 as stated: for every string, encoding it as UTF-16LE, appending a
\* double null and normalizing the bytes returns the original string.
C21_RoundTrip ==
  \A s \in RoundTripStrings :
    RoundTripped(s) => dec_result = Ret(PyStr(CodePointsToChars(s)))

\* C21 amended: for every string of code points 1..255 (no NUL, nothing
\* beyond Latin-1), encoding it as UTF-16LE, appending a double null and
\* normalizing the bytes returns the original string.
C21_RoundTripLatin1 ==
  \A s \in RoundTripStrings :
    (RoundTripped(s) /\ \A i \in 1..Len(s) : s[i] \in 1..255)
      => dec_result = Ret(PyStr(CodePointsToChars(s)))

\* C21 witness: the encoding of A, e-acute came back as that string
C21_Witness ==
  /\ RoundTripped(<<65, 233>>)
  /\ dec_result = Ret(PyStr(<<"A", Chr(233)>>))

\* the ID-map table of the database, and the decoded cell of its record n
\* (from 0) in the column so named
IdMapTable == Tables[TableIndexByName(Tables, SruDbIdMapTable)]

IdMapCell(n, name) == SmartRetrieve(IdMapTable, n, ColumnLookup(IdMapTable, name)).val

\* record n is the last record of the ID-map table with its IdIndex
LastOfIndex(n) ==
  \A m \in (n + 1)..(Len(IdMapTable.records) - 1) :
    PyKey(IdMapCell(m, IdIndex)) /= PyKey(IdMapCell(n, IdIndex))

\* what the claim resolves record n to
IdMapResolved(n) ==
  IF IdMapCell(n, IdType) = PyInt(3)
  THEN BinarySidToStringSid(self, IdMapCell(n, IdBlob))
  ELSE IF IdMapCell(n, IdBlob) \notin {PyStr(EmptyStr), PyStr(ErrorStr)}
  THEN BlobToString(IdMapCell(n, IdBlob))
  ELSE IdMapCell(n, IdBlob)

\* C22: for every record of the ID-map table the resolver stores its
\* IdIndex with the resolved value: the SID decoder's output for the blob
\* when IdType is 3, the Blob/Text Normalizer's output when IdType is not 3
\* and the decoded blob is neither Empty nor Error, and the sentinel itself
\* otherwise.
C22_IdMapEntries ==
  (pc = "process" /\ ~IdMapBroken) =>
    \A n \in 0..(Len(IdMapTable.records) - 1) :
      LastOfIndex(n) =>
        /\ DictHas(self.id_table, IdMapCell(n, IdIndex))
        /\ DictGet(self.id_table, IdMapCell(n, IdIndex), NoneVal) = IdMapResolved(n)

\* C22 witness: the ID table holds a decoded SID, a normalized text and
\* both sentinels
C22_Witness ==
  /\ pc = "process"
  /\ ~IdMapBroken
  /\ StartsWith(StrChars(DictGet(self.id_table, PyInt(1), NoneVal)), SidText)
  /\ DictGet(self.id_table, PyInt(3), NoneVal) = PyStr(<<"A", "B">>)
  /\ DictGet(self.id_table, PyInt(5), NoneVal) = PyStr(EmptyStr)
  /\ DictGet(self.id_table, PyStr(ErrorStr), NoneVal) = PyStr(ErrorStr)

\* C23: interface_id is substituted through the Interface Table only if a
\* registry hive was supplied: with a hive path the cell shows the table's
\* entry for the stringified value (nothing when the table has none);
\* without a hive path the value is shown unchanged.
C23_InterfaceId ==
  FmtIs(<<"i", "n", "t", "e", "r", "f", "a", "c", "e", "_", "i", "d">>) =>
    fmt_result =
      Ret(IF fmt_self.reg_hive_path = NoneVal THEN Str(fmt_val)
          ELSE IF Str(fmt_val) \in DOMAIN fmt_self.interface_table
          THEN Str(fmt_self.interface_table[Str(fmt_val)])
          ELSE PyStr(<<>>))

\* C23 witness: with a hive, the value 1 was shown as the network name the
\* registry has for profile 1
C23_Witness ==
  /\ FmtIs(<<"i", "n", "t", "e", "r", "f", "a", "c", "e", "_", "i", "d">>)
  /\ fmt_self.reg_hive_path = HivePath
  /\ fmt_val = PyInt(1)
  /\ fmt_result = Ret(PyStr(<<"H", "i">>))

\* the registry SID loader fails on the hive h: the hive cannot be read, it
\* has no ProfileList key, or one of its profiles has no ProfileImagePath
RegistryFails(h) ==
  \/ ~h.readable
  \/ ~h.has_profile_list
  \/ \E i \in 1..Len(h.profiles) : h.profiles[i].image_path.k /= "str"

\* C24: any failure inside the registry SID loader (hive unreadable,
\* ProfileList key missing, a subkey lacking ProfileImagePath) gives an
\* empty SID mapping, the entries already read discarded, and does not
\* abort analyze(): the run goes on to open the database, and the template
\* lookups are those of the workbook alone, as if no Known-SIDs data had
\* been supplied.
C24_RegistryFailSoft ==
  (Truthy(self.reg_hive_path) /\ RegistryFails(hive) /\ pc /= "start") =>
    /\ self.regsids = EmptyDict
    /\ pc = "open_db" => outcome = Running
    /\ pc \in {"load_idmap", "process"} =>
         self.template_lookups = LoadTemplateLookups(template_file.sheets)

\* C24 witness: on a hive whose second profile lacks ProfileImagePath the
\* run reached the table loop with no registry SIDs
C24_Witness ==
  /\ Truthy(self.reg_hive_path)
  /\ hive = HiveBroken
  /\ pc = "process"
  /\ self.regsids = EmptyDict

\* C25: the analysis result has exactly one entry per processed table: its
\* keys are as many as the non-skipped tables with at least one record, and
\* no two processed tables get the same display name, so that none
\* replaces another.
C25_OneEntryPerTable ==
  outcome.status = "returned" =>
    /\ Cardinality(DOMAIN outcome.data) = Cardinality({i \in TableIds : Processed(i)})
    /\ \A i, j \in TableIds :
         (Processed(i) /\ Processed(j) /\ i /= j) =>
           EseTableGuidToName(self, Tables[i]) /= EseTableGuidToName(self, Tables[j])

\* C26: the Format engine returns a string and never raises, for every
\* decoded value and every directive cell the Schema Template Loader can
\* hand it: a string, a cell that is not text (a number, a date) and the
\* empty cell.
C26_FormatTotal ==
  fmt_pc = "done" => ~fmt_result.raised /\ IsStr(fmt_result.val)

\* C27: a cell shows the WARNING placeholder only if its record could not
\* be retrieved; a cell whose stored text decodes to the literal string
\* Error shows that text (after its directive), not the placeholder.
C27_PlaceholderOnlyForLostRecord ==
  outcome.status = "returned" =>
    \A i \in TableIds :
      StoredLast(i) =>
        LET rows == outcome.data[EseTableGuidToName(self, Tables[i])]
            got == ReadableRows(Tables[i])
        IN \A r \in 1..Len(got) :
             \A c \in 1..Len(Tables[i].columns) :
               rows[r + 1][c] = PyStr(WarningPrefix \o Tables[i].columns[c].name) =>
                 ~Tables[i].records[got[r] + 1].decodable

\* C28: a record that cannot be retrieved is left out, without a
\* placeholder row, and the records after it are still processed: the data
\* rows of a table are those of the records that could be got, in order,
\* never more than the record count; and a table that is not skipped and
\* has a nonzero record count is in the result even when only its header
\* row is left.
C28_LostRecordsOmitted ==
  outcome.status = "returned" =>
    \A i \in TableIds :
      /\ Processed(i) => DictHas(outcome.data, EseTableGuidToName(self, Tables[i]))
      /\ StoredLast(i) =>
           LET rows == outcome.data[EseTableGuidToName(self, Tables[i])]
               got == ReadableRows(Tables[i])
           IN /\ Len(rows) = Len(got) + 1
              /\ Len(rows) - 1 <= EseTableRecordCount(Tables[i])
              /\ \A r \in 1..Len(got) :
                   rows[r + 1] = GuiRow(self, Tables[i], got[r], 0, <<>>).val

\* C28 witness: two runs that returned, one with a table that keeps its
\* header row alone, none of its records having been got, the other with a
\* table that lost one record and keeps the rows of the three others
C28_Witness ==
  /\ outcome.status = "returned"
  /\ \E i \in TableIds :
       /\ StoredLast(i)
       /\ Tables[i] \in {TableAppLost, TableAppBad}
       /\ Len(outcome.data[EseTableGuidToName(self, Tables[i])])
            = IF Tables[i] = TableAppLost THEN 1 ELSE 4
  /\ Len(history) = 1
  /\ history[1].status = "returned"
  /\ \E name \in DOMAIN history[1].data :
       Len(history[1].data[name]) = IF Tables[1] = TableAppLost THEN 4 ELSE 1

\* the Known SIDS lookup of the workbook, and that of the analyzer
SheetKnownSids ==
  DictGet(LoadTemplateLookups(template_file.sheets), PyStr(KnownSidsName), EmptyDict)

MergedKnownSids == DictGet(self.template_lookups, PyStr(KnownSidsName), EmptyDict)

\* the SID string of record n of the ID-map table, whose blob is a
\* well-formed binary SID
IdMapSid(n) == PyStr(SidString(BytesOfHex(IdMapCell(n, IdBlob))))

\* C29: the registry's SID entries are merged into the Known SIDS template
\* lookup before the ID-Map Resolver runs: when the resolver is about to
\* run, Known SIDS holds every registry entry, the registry's value also
\* for a key the workbook has, and the workbook's other entries; so every
\* SID-typed entry of the ID Table carries the registry's user name when
\* the registry maps its SID.  With an empty registry mapping the merge is
\* skipped: the template lookups are those of the workbook.
C29_RegistrySidsMerged ==
  /\ (pc \in {"load_idmap", "process"} /\ self.regsids /= EmptyDict) =>
       /\ \A sid \in DOMAIN self.regsids : MergedKnownSids[sid] = self.regsids[sid]
       /\ \A sid \in (DOMAIN SheetKnownSids) \ (DOMAIN self.regsids) :
            MergedKnownSids[sid] = SheetKnownSids[sid]
       /\ DOMAIN MergedKnownSids = (DOMAIN SheetKnownSids) \cup (DOMAIN self.regsids)
  /\ (pc \in {"load_idmap", "process"} /\ self.regsids = EmptyDict) =>
       self.template_lookups = LoadTemplateLookups(template_file.sheets)
  /\ (pc = "process" /\ ~IdMapBroken) =>
       \A n \in 0..(Len(IdMapTable.records) - 1) :
         (/\ LastOfIndex(n)
          /\ IdMapCell(n, IdType) = PyInt(3)
          /\ WellFormedSid(BytesOfHex(IdMapCell(n, IdBlob)))
          /\ IdMapSid(n) \in DOMAIN self.regsids) =>
           DictGet(self.id_table, IdMapCell(n, IdIndex), NoneVal)
             = PyStr(IdMapSid(n).v \o <<" ", "(">> \o StrChars(self.regsids[IdMapSid(n)])
                     \o <<")">>)

\* C29 witness: the workbook names the SID old, the registry names it bob,
\* and the ID Table entry of the SID says bob; the workbook's other SID is
\* still in Known SIDS
C29_Witness ==
  /\ pc = "process"
  /\ DictGet(SheetKnownSids, PyStr(SidText), NoneVal) = PyStr(<<"o", "l", "d">>)
  /\ DictGet(self.regsids, PyStr(SidText), NoneVal) = PyStr(<<"b", "o", "b">>)
  /\ DictGet(self.id_table, PyInt(1), NoneVal)
       = PyStr(SidText \o <<" ", "(", "b", "o", "b", ")">>)
  /\ PyStr(<<"S", "-", "1", "-", "5", "-", "1", "8">>) \in DOMAIN MergedKnownSids

\* the three checks of start_srum_analysis pass
ChecksPass == imports_available /\ exists.srum /\ exists.template

\* C30: start_srum_analysis starts a worker thread only when the SRUM
\* libraries are available and both the database file and the template file
\* exist; when a check fails no thread is started, the page holds no
\* thread, and no finished signal or completion callback ever comes for the
\* request; when only the registry hive is missing the thread is started,
\* with no hive path.
C30_StartChecks ==
  /\ threads /= <<>> => ChecksPass
  /\ ~ChecksPass =>
       /\ srum_analysis_thread = 0
       /\ signals = <<>>
       /\ callbacks = <<>>
  /\ \A i \in 1..Len(threads) :
       threads[i].params.reg_path = IF exists.reg THEN HivePath ELSE NoneVal
  /\ \A n \in 1..Len(callbacks) : callbacks[n].thread \in 1..Len(threads)
  /\ (ChecksPass /\ placeholder_text = "Analyzing SRUM database... This may take a while.") =>
       threads /= <<>>

\* C30 witness: a request was made with the template file missing, the
\* database and the hive present: it left its message and started no thread
C30_Witness ==
  /\ imports_available /\ exists.srum /\ ~exists.template /\ exists.reg
  /\ placeholder_text = "SRUM template not found"
  /\ threads = <<>>
  /\ callbacks = <<>>

====
